---- MODULE Spec2Model ----
(***************************************************************************)
(* Patent-cliff portfolio optimiser: the risk-weighting engine             *)
(* (backtest_engine.py, utils.py) and the two day-by-day simulation loops  *)
(* (PatentCliffBacktester.run_simulation in backtest.py and                *)
(* EnhancedPatentCliffBacktester.run_backtest in backtest_engine.py).      *)
(*                                                                         *)
(* Numbers.  The program computes in IEEE doubles; the model computes in   *)
(* exact extended rationals <<n, d>>: d > 0 and gcd(n, d) = 1 for a finite *)
(* value, <<1, 0>> for +inf, <<-1, 0>> for -inf and <<0, 0>> for NaN.      *)
(* Dates are day numbers (days since an arbitrary epoch), so the           *)
(* difference of two dates is the .days of the Timedelta.                  *)
(***************************************************************************)
EXTENDS Integers, Sequences, FiniteSets, TLC

VARIABLES
    drugs,            \* BACKTEST_TARGET_DRUGS: drug name -> record
    launches,         \* NEW_DRUG_LAUNCHES: drug name -> record
    launch_tracking,  \* self.launch_tracking of the enhanced backtester
    calls,            \* number of get_patent_cliff_weights calls made so far
    as_of,            \* argument of the last get_patent_cliff_weights call
    wres,             \* weight vector returned by the last get_patent_cliff_weights call
    lim_in,           \* arguments of the last direct apply_position_limits call
    lim_out,          \* its result
    loop,             \* "run_simulation" (backtest.py), "run_backtest" (backtest_engine.py) or "none"
    pc,               \* "loop" while iterating, "done" after the last day, "error" after an exception
    target_drugs,     \* TARGET_DRUGS (backtest.py): sequence of [ticker, revenue_billions]
    use_historical_data,  \* PatentCliffBacktester.use_historical_data
    patent_timeline,  \* HistoricalPatentManager.patent_timeline: date -> rows of cliff data
    columns,          \* tickers that have a price column, in column order
    trading_days,     \* the price index: day number of each trading day
    benchmark_data,   \* benchmark close of each trading day
    rebalance_dates,  \* the schedule returned by get_trading_dates
    transaction_cost, \* config 'transaction_cost'
    initial_capital,  \* config 'initial_capital'
    prices,           \* price rows read so far: prices[k][t] is the close of t on day k - 1
    i,                \* number of trading days processed
    capital,          \* current_capital / portfolio_value
    current_weights,  \* the weight vector in force
    total_transaction_costs,    \* run_backtest: running dollar total
    transaction_costs_history,  \* run_simulation: one record per charged rebalance
    weight_history,   \* one record per rebalance
    portfolio_values, \* one value per processed day
    benchmark_values, \* run_backtest: one value per processed day
    daily_returns,    \* run_backtest: one return per processed day
    drug_performance, \* run_backtest: self.drug_performance, <<>> while not set
    tc,               \* a direct call of calculate_transaction_costs: arguments and result
    td,               \* a call of get_trading_dates: arguments, loop state and result
    pm,               \* a call of calculate_performance_metrics: arguments and result
    rr,               \* a run of PatentCliffAnalyzer (main.py): inputs and results
    rw,               \* a direct call of calculate_risk_weight: arguments and result
    hd                \* a HistoricalPatentManager lookup: position, argument and result

wvars == <<drugs, launches, launch_tracking, calls, as_of, wres, lim_in, lim_out>>
cfgvars == <<loop, target_drugs, use_historical_data, patent_timeline, columns, trading_days,
             benchmark_data, rebalance_dates, transaction_cost, initial_capital>>
simvars == <<pc, prices, i, capital, current_weights, total_transaction_costs,
             transaction_costs_history, weight_history, portfolio_values, benchmark_values,
             daily_returns, drug_performance>>
uvars == <<tc, td, pm, rr, rw, hd>>
vars == <<wvars, cfgvars, simvars, uvars>>

-----------------------------------------------------------------------------
(* Extended rational arithmetic *)

RECURSIVE GCD(_, _)
GCD(a, b) == IF b = 0 THEN a ELSE GCD(b, a % b)

Abs(n) == IF n < 0 THEN -n ELSE n

Sign(n) == IF n < 0 THEN -1 ELSE IF n = 0 THEN 0 ELSE 1

Norm(n, d) ==
    IF d = 0 THEN <<Sign(n), 0>>
    ELSE LET g == GCD(Abs(n), Abs(d))
         IN  <<Sign(d) * (n \div g), Abs(d) \div g>>

R(n, d) == Norm(n, d)

Zero == <<0, 1>>
One == <<1, 1>>
PosInf == <<1, 0>>
NegInf == <<-1, 0>>
NaN == <<0, 0>>

IsNaN(x) == x = NaN
IsFinite(x) == x[2] # 0

RNeg(x) == <<-x[1], x[2]>>

RMul(x, y) ==
    IF x[2] = 0 \/ y[2] = 0 THEN <<Sign(x[1]) * Sign(y[1]), 0>>
    ELSE LET g1 == GCD(Abs(x[1]), y[2])
             g2 == GCD(Abs(y[1]), x[2])
         IN  Norm((x[1] \div g1) * (y[1] \div g2), (x[2] \div g2) * (y[2] \div g1))

RInv(x) ==
    IF x[2] = 0 THEN (IF x[1] = 0 THEN NaN ELSE Zero)
    ELSE IF x[1] = 0 THEN PosInf
    ELSE Norm(x[2], x[1])

RDiv(x, y) == RMul(x, RInv(y))

RAdd(x, y) ==
    IF IsNaN(x) \/ IsNaN(y) THEN NaN
    ELSE IF x[2] = 0 /\ y[2] = 0 THEN (IF x[1] = y[1] THEN x ELSE NaN)
    ELSE IF x[2] = 0 THEN x
    ELSE IF y[2] = 0 THEN y
    ELSE LET g == GCD(x[2], y[2])
         IN  Norm(x[1] * (y[2] \div g) + y[1] * (x[2] \div g), (x[2] \div g) * y[2])

RSub(x, y) == RAdd(x, RNeg(y))

\* n1/d1 < n2/d2 for d1, d2 > 0, by continued fractions (no products)
RECURSIVE FracLt(_, _, _, _)
FracLt(n1, d1, n2, d2) ==
    LET q1 == n1 \div d1
        q2 == n2 \div d2
        r1 == n1 % d1
        r2 == n2 % d2
    IN  IF q1 # q2 THEN q1 < q2
        ELSE IF r2 = 0 THEN FALSE
        ELSE IF r1 = 0 THEN TRUE
        ELSE FracLt(d2, r2, d1, r1)

\* IEEE comparisons: anything compared with NaN is false
RLt(x, y) ==
    IF IsNaN(x) \/ IsNaN(y) THEN FALSE
    ELSE IF x[2] = 0 \/ y[2] = 0
         THEN (IF x[2] = 0 /\ y[2] = 0 THEN x[1] < y[1]
               ELSE IF x[2] = 0 THEN x[1] < 0 ELSE y[1] > 0)
    ELSE FracLt(x[1], x[2], y[1], y[2])

RLe(x, y) == ~IsNaN(x) /\ ~IsNaN(y) /\ ~RLt(y, x)

\* Python's min(a, b) / max(a, b): the first argument unless the second beats it
RMin(a, b) == IF RLt(b, a) THEN b ELSE a
RMax(a, b) == IF RLt(a, b) THEN b ELSE a

RAbs(x) == <<Abs(x[1]), x[2]>>

\* x ** 0.5 on the rationals whose square root is rational
IntSqrt(n) == CHOOSE k \in 0..n : k * k = n
RSqrt(x) == <<IntSqrt(x[1]), IntSqrt(x[2])>>

-----------------------------------------------------------------------------
(* pandas Series: a function from its index (a set of tickers) to values *)

EmptySeries == [t \in {} |-> Zero]

RECURSIVE SumOver(_, _)
SumOver(f, S) ==
    IF S = {} THEN Zero
    ELSE LET t == CHOOSE u \in S : TRUE
         IN  RAdd(f[t], SumOver(f, S \ {t}))

\* Series.sum(): NaN entries are skipped (skipna=True)
SeriesSum(w) == SumOver([t \in DOMAIN w |-> IF IsNaN(w[t]) THEN Zero ELSE w[t]], DOMAIN w)

\* Series.clip(lower, upper) with scalar thresholds: pandas orders the two thresholds
\* first (lower, upper = min(lower, upper), max(lower, upper)); NaN stays NaN
ClipOrdered(x, lo, hi) == IF RLt(x, lo) THEN lo ELSE IF RLt(hi, x) THEN hi ELSE x
Clip(x, lo, hi) == IF RLt(hi, lo) THEN ClipOrdered(x, hi, lo) ELSE ClipOrdered(x, lo, hi)

-----------------------------------------------------------------------------
(* Configuration (config.py) *)

min_weight == R(2, 100)                \* BACKTEST_CONFIG['min_weight']
max_weight == R(15, 100)               \* BACKTEST_CONFIG['max_weight']
new_launch_boost == R(12, 10)          \* BACKTEST_CONFIG['new_launch_boost']
launch_evaluation_window == 30         \* BACKTEST_CONFIG['launch_evaluation_window']
include_new_launches == TRUE           \* BACKTEST_CONFIG['include_new_launches']
cliff_horizon_years == R(2, 1)         \* BACKTEST_RISK_PARAMETERS['cliff_horizon_years']
risk_decay_factor == R(1, 2)           \* BACKTEST_RISK_PARAMETERS['risk_decay_factor']
expired_drug_weight == Zero            \* BACKTEST_RISK_PARAMETERS['expired_drug_weight']

-----------------------------------------------------------------------------
(* utils.py *)

\* if weights.sum() > 0: weights = weights / weights.sum()
Renormalize(weights) ==
    IF RLt(Zero, SeriesSum(weights))
    THEN [t \in DOMAIN weights |-> RDiv(weights[t], SeriesSum(weights))]
    ELSE weights

\* apply_position_limits without the renormalisation after clipping
apply_position_limits_no_renorm(weights, lo, hi) ==
    [t \in DOMAIN weights |-> Clip(weights[t], lo, hi)]

\* apply_position_limits clipping only from above
apply_position_limits_upper_only(weights, lo, hi) ==
    LET clipped == [t \in DOMAIN weights |-> Clip(weights[t], weights[t], hi)]
        total == SeriesSum(clipped)
    IN  IF RLt(Zero, total)
        THEN [t \in DOMAIN weights |-> RDiv(clipped[t], total)]
        ELSE clipped

\* apply_position_limits: clip every entry, then renormalise once
apply_position_limits(weights, lo, hi) ==
    Renormalize([t \in DOMAIN weights |-> Clip(weights[t], lo, hi)])

\* calculate_transaction_costs: cost_rate times the turnover over the union
\* variant: the turnover is returned without the rate applied
calculate_transaction_costs_turnover_only(old_weights, new_weights, cost_rate) ==
    SeriesSum([t \in DOMAIN old_weights \cup DOMAIN new_weights |->
                 RAbs(RSub(IF t \in DOMAIN new_weights THEN new_weights[t] ELSE Zero,
                           IF t \in DOMAIN old_weights THEN old_weights[t] ELSE Zero))])

\* variant: only the tickers of the new vector are aligned
calculate_transaction_costs_new_index(old_weights, new_weights, cost_rate) ==
    RMul(SeriesSum([t \in DOMAIN new_weights |->
                      RAbs(RSub(new_weights[t],
                                IF t \in DOMAIN old_weights THEN old_weights[t] ELSE Zero))]),
         cost_rate)

calculate_transaction_costs(old_weights, new_weights, cost_rate) ==
    LET all_tickers == DOMAIN old_weights \cup DOMAIN new_weights
        old == [t \in all_tickers |-> IF t \in DOMAIN old_weights THEN old_weights[t] ELSE Zero]
        new == [t \in all_tickers |-> IF t \in DOMAIN new_weights THEN new_weights[t] ELSE Zero]
        turnover == SeriesSum([t \in all_tickers |-> RAbs(RSub(new[t], old[t]))])
    IN  RMul(turnover, cost_rate)

-----------------------------------------------------------------------------
(* backtest_engine.py: the risk-weighting engine *)

ExistingKey(name) == <<name, "">>
NewKey(name) == <<name, "_NEW">>           \* f"{drug_name}_NEW"

\* variant: a launch is available from its launch date on
get_available_drugs_at_date_no_window(current_date) ==
    LET newOk == IF include_new_launches
                 THEN {n \in DOMAIN launches : current_date >= launches[n].launch_date}
                 ELSE {}
        keys == {ExistingKey(n) : n \in DOMAIN drugs} \cup {NewKey(n) : n \in newOk}
    IN  [k \in keys |->
            IF k[2] = "" THEN [info |-> drugs[k[1]], type |-> "existing"]
            ELSE [info |-> launches[k[1]], type |-> "new_launch"]]

\* get_available_drugs_at_date: every existing drug, and each launch whose
\* evaluation window has passed
get_available_drugs_at_date(current_date) ==
    LET newOk == IF include_new_launches
                 THEN {n \in DOMAIN launches :
                          current_date >= launches[n].launch_date + launch_evaluation_window}
                 ELSE {}
        keys == {ExistingKey(n) : n \in DOMAIN drugs} \cup {NewKey(n) : n \in newOk}
    IN  [k \in keys |->
            IF k[2] = "" THEN [info |-> drugs[k[1]], type |-> "existing"]
            ELSE [info |-> launches[k[1]], type |-> "new_launch"]]

\* variant: the bucket boundaries belong to the next bucket
time_factor_strict(years_to_expiry) ==
    IF RLt(years_to_expiry, R(1, 4)) THEN R(5, 100)
    ELSE IF RLt(years_to_expiry, R(1, 2)) THEN R(1, 10)
    ELSE IF RLt(years_to_expiry, One) THEN R(2, 10)
    ELSE IF RLt(years_to_expiry, cliff_horizon_years)
         THEN RMax(R(2, 10),
                   RSub(One, RMul(RDiv(RSub(cliff_horizon_years, years_to_expiry),
                                       cliff_horizon_years),
                                  risk_decay_factor)))
    ELSE One

\* the time decay factor of calculate_risk_weight
time_factor(years_to_expiry) ==
    IF RLe(years_to_expiry, R(1, 4)) THEN R(5, 100)
    ELSE IF RLe(years_to_expiry, R(1, 2)) THEN R(1, 10)
    ELSE IF RLe(years_to_expiry, One) THEN R(2, 10)
    ELSE IF RLe(years_to_expiry, cliff_horizon_years)
         THEN LET decay_progress == RDiv(RSub(cliff_horizon_years, years_to_expiry),
                                         cliff_horizon_years)
              IN  RMax(R(2, 10), RSub(One, RMul(decay_progress, risk_decay_factor)))
    ELSE One

NewLaunchStatusFactor(drug_status) ==
    CASE drug_status = "blockbuster" -> R(13, 10)
      [] drug_status = "growing_blockbuster" -> R(125, 100)
      [] drug_status = "pandemic_blockbuster" -> R(11, 10)
      [] drug_status = "expanding_blockbuster" -> R(12, 10)
      [] drug_status = "oncology_blockbuster" -> R(115, 100)
      [] OTHER -> R(11, 10)

RecencyFactor(days_since_launch) ==
    IF days_since_launch < 365 THEN R(11, 10)
    ELSE IF days_since_launch < 730 THEN One
    ELSE R(9, 10)

\* variant: an expired drug gets the floor weight instead of expired_drug_weight
calculate_risk_weight_expired_floor(drug_revenue, years_to_expiry, current_date, drug_status, drug) ==
    RMax(R(1, 1000),
         IF RLe(years_to_expiry, Zero) \/ drug_status = "expired_in_period"
         THEN Zero
         ELSE RMul(RMul(time_factor(years_to_expiry), RMin(One, RDiv(drug_revenue, R(10, 1)))),
                   IF drug.type = "new_launch"
                   THEN RMul(RMul(NewLaunchStatusFactor(drug_status),
                                  RMin(R(15, 10),
                                       RMul(RDiv(drug.info.peak_sales_estimate,
                                                 RMax(R(1, 10), drug_revenue)),
                                            R(2, 10)))),
                             RecencyFactor(current_date - drug.info.launch_date))
                   ELSE IF drug_status = "still_protected" THEN R(12, 10) ELSE One))

calculate_risk_weight(drug_revenue, years_to_expiry, current_date, drug_status, drug) ==
    IF RLe(years_to_expiry, Zero) \/ drug_status = "expired_in_period"
    THEN expired_drug_weight
    ELSE LET revenue_factor == RMin(One, RDiv(drug_revenue, R(10, 1)))
             base_status == IF drug.type = "new_launch"
                            THEN NewLaunchStatusFactor(drug_status)
                            ELSE IF drug_status = "still_protected" THEN R(12, 10) ELSE One
             current_revenue == RMax(R(1, 10), drug_revenue)
             growth_potential ==
                 RMin(R(15, 10),
                      RMul(RDiv(drug.info.peak_sales_estimate, current_revenue), R(2, 10)))
             status_factor ==
                 IF drug.type = "new_launch"
                 THEN RMul(RMul(base_status, growth_potential),
                           RecencyFactor(current_date - drug.info.launch_date))
                 ELSE base_status
             weight == RMul(RMul(time_factor(years_to_expiry), revenue_factor), status_factor)
         IN  RMax(R(1, 1000), weight)

MomentumStatusMultiplier(drug_status) ==
    CASE drug_status = "blockbuster" -> R(13, 10)
      [] drug_status = "growing_blockbuster" -> R(12, 10)
      [] drug_status = "pandemic_blockbuster" -> R(11, 10)
      [] drug_status = "expanding_blockbuster" -> R(125, 100)
      [] drug_status = "oncology_blockbuster" -> R(115, 100)
      [] OTHER -> One

calculate_new_launch_momentum(drug, current_date) ==
    IF drug.type # "new_launch" THEN One
    ELSE LET days_since_launch == current_date - drug.info.launch_date
             time_momentum ==
                 IF days_since_launch < 365
                 THEN RAdd(R(1, 2), RMul(R(days_since_launch, 365), R(1, 2)))
                 ELSE IF days_since_launch < 730
                 THEN RAdd(One, RMul(R(730 - days_since_launch, 365), R(3, 10)))
                 ELSE R(8, 10)
             growth_potential ==
                 RMin(R(2, 1), RDiv(drug.info.peak_sales_estimate,
                                    RMax(R(1, 10), drug.info.revenue_billions)))
             combined_momentum ==
                 RMul(RMul(time_momentum, RMin(R(15, 10), RSqrt(growth_potential))),
                      MomentumStatusMultiplier(drug.info.status))
         IN  RMin(R(2, 1), combined_momentum)

\* pd.Timestamp(drug_info['patent_expiry']) raises for an unparseable string
ExpiryParses(info) == info.expiry_kind # "unparseable"

\* (patent_expiry - current_timestamp).days / 365.25; NaT (a null expiry) gives NaN
YearsToExpiry(info, current_date) ==
    IF info.expiry_kind = "date" THEN R((info.patent_expiry - current_date) * 4, 1461)
    ELSE NaN

\* the weight one drug adds to its ticker in the loop of get_patent_cliff_weights
DrugWeight(drug, current_date) ==
    LET base == calculate_risk_weight(drug.info.revenue_billions,
                                      YearsToExpiry(drug.info, current_date),
                                      current_date, drug.info.status, drug)
    IN  IF drug.type = "new_launch"
        THEN RMul(RMul(base, calculate_new_launch_momentum(drug, current_date)),
                  new_launch_boost)
        ELSE base

\* the drugs the loop of get_patent_cliff_weights adds to the dict: the expiry
\* parses and the weight is positive
CountedDrugs(available, current_date) ==
    {k \in DOMAIN available :
        /\ ExpiryParses(available[k].info)
        /\ RLt(Zero, DrugWeight(available[k], current_date))}

\* the dict `weights` built by the loop: per ticker, the sum of its drugs' weights
SumByTicker(available, counted, current_date) ==
    [t \in {available[k].info.ticker : k \in counted} |->
        SumOver([k \in counted |-> DrugWeight(available[k], current_date)],
                {k \in counted : available[k].info.ticker = t})]

RawTickerWeights(current_date) ==
    SumByTicker(get_available_drugs_at_date(current_date),
                CountedDrugs(get_available_drugs_at_date(current_date), current_date),
                current_date)

\* the tail of get_patent_cliff_weights: normalise and apply the position limits
NormalizeAndLimit(weights_series) ==
    IF DOMAIN weights_series # {} /\ RLt(Zero, SeriesSum(weights_series))
    THEN apply_position_limits(
             [t \in DOMAIN weights_series |->
                 RDiv(weights_series[t], SeriesSum(weights_series))],
             min_weight, max_weight)
    ELSE weights_series

\* variant: a launch that is already tracked is not weighted again
get_patent_cliff_weights_untracked_only(current_date) ==
    NormalizeAndLimit(
        SumByTicker(get_available_drugs_at_date(current_date),
                    CountedDrugs(get_available_drugs_at_date(current_date), current_date)
                        \ DOMAIN launch_tracking,
                    current_date))

get_patent_cliff_weights(current_date) ==
    NormalizeAndLimit(RawTickerWeights(current_date))

\* the launches the loop of get_patent_cliff_weights tracks
TrackedLaunches(available) ==
    {k \in DOMAIN available :
        available[k].type = "new_launch" /\ ExpiryParses(available[k].info)}

TrackInto(tracking, available, tracked, current_date) ==
    [k \in DOMAIN tracking \cup tracked |->
        IF k \notin tracked THEN tracking[k]
        ELSE IF k \in DOMAIN tracking
             THEN [tracking[k] EXCEPT
                      !.weights_history =
                          Append(@, <<current_date, DrugWeight(available[k], current_date)>>),
                      !.momentum_history =
                          Append(@, <<current_date,
                                      calculate_new_launch_momentum(available[k],
                                                                    current_date)>>)]
             ELSE [first_inclusion_date |-> current_date,
                   weights_history |->
                       <<<<current_date, DrugWeight(available[k], current_date)>>>>,
                   momentum_history |->
                       <<<<current_date,
                           calculate_new_launch_momentum(available[k], current_date)>>>>]]

\* self.launch_tracking after get_patent_cliff_weights(current_date)
TrackLaunches(tracking, current_date) ==
    TrackInto(tracking, get_available_drugs_at_date(current_date),
              TrackedLaunches(get_available_drugs_at_date(current_date)), current_date)

-----------------------------------------------------------------------------
(* backtest.py: the historical analyzer and the weights of run_simulation.  *)
(* A Series whose index may repeat a ticker is [labels, values], two        *)
(* sequences of the same length.                                            *)

diversification_penalty == R(1, 10)    \* RISK_PARAMETERS['diversification_penalty']
fallback_total_revenue == R(50, 1)     \* company_revenues.get(ticker, 50.0)

RECURSIVE SetToSeq(_)
SetToSeq(S) ==
    IF S = {} THEN <<>>
    ELSE LET t == CHOOSE u \in S : TRUE IN <<t>> \o SetToSeq(S \ {t})

\* list(set(info['ticker'] for info in TARGET_DRUGS.values()))
TargetTickers == {target_drugs[k].ticker : k \in DOMAIN target_drugs}

\* pd.Series(1.0 / len(tickers), index=tickers)
EqualWeightSeries(tickers) ==
    [labels |-> SetToSeq(tickers),
     values |-> [k \in 1..Cardinality(tickers) |-> R(1, Cardinality(tickers))]]

\* get_company_revenues: five times the revenue of the ticker's last drug
get_company_revenues ==
    [t \in TargetTickers |->
        LET last == CHOOSE k \in DOMAIN target_drugs :
                        /\ target_drugs[k].ticker = t
                        /\ \A m \in DOMAIN target_drugs :
                              target_drugs[m].ticker = t => m <= k
        IN  RMul(target_drugs[last].revenue_billions, R(5, 1))]

\* HistoricalPatentManager.get_patent_data_for_date (backtest.py)
get_patent_data_for_date(analysis_date) ==
    LET available_dates == DOMAIN patent_timeline
        valid_dates == {d \in available_dates : d <= analysis_date}
        closest_date ==
            IF valid_dates = {}
            THEN CHOOSE d \in available_dates : \A e \in available_dates : d <= e
            ELSE CHOOSE d \in valid_dates : \A e \in valid_dates : e <= d
    IN  IF available_dates = {} THEN [found |-> FALSE, date |-> 0, rows |-> <<>>]
        ELSE [found |-> TRUE, date |-> closest_date, rows |-> patent_timeline[closest_date]]

\* the raw weight of one row of cliff data
HistoricalRawWeight(row, company_revenues) ==
    LET total_revenue == IF row.ticker \in DOMAIN company_revenues
                         THEN company_revenues[row.ticker]
                         ELSE fallback_total_revenue
        revenue_risk_percent == RMul(RDiv(row.revenue_billions, total_revenue), R(100, 1))
        tf == RMax(R(1, 10), RMin(One, RDiv(row.years_to_expiry, R(5, 1))))
        risk_factor == RMax(R(1, 10),
                            RSub(One, RMin(R(9, 10), RDiv(revenue_risk_percent, R(100, 1)))))
        diversification_factor == RMax(R(1, 2), RSub(One, diversification_penalty))
    IN  RMul(RMul(tf, risk_factor), diversification_factor)

\* weights_df['raw_weight'] indexed by ticker, limited with the default limits
LimitedRawWeights(rows, raw) ==
    IF RLt(Zero, SeriesSum(raw))
    THEN [labels |-> [k \in 1..Len(rows) |-> rows[k].ticker],
          values |-> apply_position_limits(raw, Zero, R(9, 10))]
    ELSE EqualWeightSeries(TargetTickers)

\* the body of calculate_portfolio_weights_historical on the cliff data found
HistoricalWeights(cliff_data, company_revenues) ==
    IF ~cliff_data.found \/ cliff_data.rows = <<>>
    THEN EqualWeightSeries(TargetTickers)
    ELSE LimitedRawWeights(cliff_data.rows,
                           [k \in 1..Len(cliff_data.rows) |->
                               HistoricalRawWeight(cliff_data.rows[k], company_revenues)])

\* HistoricalPatentCliffAnalyzer.calculate_portfolio_weights_historical
calculate_portfolio_weights_historical(analysis_date, company_revenues) ==
    HistoricalWeights(get_patent_data_for_date(analysis_date), company_revenues)

\* PatentCliffBacktester.calculate_portfolio_weights
calculate_portfolio_weights(date) ==
    IF use_historical_data
    THEN calculate_portfolio_weights_historical(date, get_company_revenues)
    ELSE EqualWeightSeries(TargetTickers)

\* Series.reindex raises ValueError when the index has duplicate labels
HasDuplicateLabels(series) ==
    \E j, k \in DOMAIN series.labels : j # k /\ series.labels[j] = series.labels[k]

\* target_weights.reindex(available_tickers, fill_value=0) on unique labels
Reindex(series, tickers) ==
    [t \in tickers |->
        IF \E k \in DOMAIN series.labels : series.labels[k] = t
        THEN series.values[CHOOSE k \in DOMAIN series.labels : series.labels[k] = t]
        ELSE Zero]

\* the tickers run_simulation simulates: the target tickers that have a price
\* column, or else the first five price columns
AvailableTickers ==
    LET matching == {t \in TargetTickers : \E k \in DOMAIN columns : columns[k] = t}
        n == IF Len(columns) < 5 THEN Len(columns) ELSE 5
    IN  IF matching # {} THEN matching ELSE {columns[k] : k \in 1..n}

\* target_weights / target_weights.sum(), or equal weights when the sum is not positive
NormalizeOrEqual(target_weights) ==
    IF RLt(Zero, SeriesSum(target_weights))
    THEN [t \in DOMAIN target_weights |-> RDiv(target_weights[t], SeriesSum(target_weights))]
    ELSE [t \in DOMAIN target_weights |-> R(1, Cardinality(DOMAIN target_weights))]

\* the target weights run_simulation installs at a rebalance
SimulationTargetWeights(date) ==
    NormalizeOrEqual(Reindex(calculate_portfolio_weights(date), AvailableTickers))

\* a cost is charged at every rebalance
ChargesCostAlways(weights) == TRUE

\* run_simulation charges a rebalance only "if not current_weights.empty"
ChargesCost(weights) == DOMAIN weights # {}

\* daily returns taken relative to the current day's price
SimulationReturnOnCurrentPrice(weights, prev_prices, curr_prices) ==
    LET ret(t) == RDiv(RSub(curr_prices[t], prev_prices[t]), curr_prices[t])
        filled(t) == IF IsNaN(ret(t)) THEN Zero ELSE ret(t)
    IN  SeriesSum([t \in DOMAIN weights |-> RMul(weights[t], filled(t))])

\* (current_weights * daily_returns).sum() of run_simulation
SimulationReturn(weights, prev_prices, curr_prices) ==
    LET ret(t) == RDiv(RSub(curr_prices[t], prev_prices[t]), prev_prices[t])
        filled(t) == IF IsNaN(ret(t)) THEN Zero ELSE ret(t)
    IN  SeriesSum([t \in DOMAIN weights |-> RMul(weights[t], filled(t))])

\* the column run_backtest reads for a ticker in a frame with flat columns: the
\* ticker's own column, else the column 'Close', else none
HasPriceColumn(t, row) == t \in DOMAIN row \/ "Close" \in DOMAIN row
PriceColumn(t, row) == IF t \in DOMAIN row THEN t ELSE "Close"

\* the ticker loop with the price change taken as prev - curr
BacktestReturnReversed(weights, prev_prices, curr_prices) ==
    LET counted == {t \in DOMAIN weights :
                       /\ HasPriceColumn(t, prev_prices)
                       /\ ~IsNaN(prev_prices[PriceColumn(t, prev_prices)])
                       /\ ~IsNaN(curr_prices[PriceColumn(t, prev_prices)])
                       /\ prev_prices[PriceColumn(t, prev_prices)] # Zero}
    IN  SumOver([t \in counted |->
                    RMul(weights[t],
                         RDiv(RSub(prev_prices[PriceColumn(t, prev_prices)],
                                   curr_prices[PriceColumn(t, prev_prices)]),
                              prev_prices[PriceColumn(t, prev_prices)]))],
                counted)

\* the portfolio_return accumulated by the ticker loop of run_backtest
BacktestReturn(weights, prev_prices, curr_prices) ==
    LET counted == {t \in DOMAIN weights :
                       /\ HasPriceColumn(t, prev_prices)
                       /\ ~IsNaN(prev_prices[PriceColumn(t, prev_prices)])
                       /\ ~IsNaN(curr_prices[PriceColumn(t, prev_prices)])
                       /\ prev_prices[PriceColumn(t, prev_prices)] # Zero}
    IN  SumOver([t \in counted |->
                    RMul(weights[t],
                         RDiv(RSub(curr_prices[PriceColumn(t, prev_prices)],
                                   prev_prices[PriceColumn(t, prev_prices)]),
                              prev_prices[PriceColumn(t, prev_prices)]))],
                counted)

\* run_simulation: any(abs((date.date() - rd.date()).days) <= 2 for rd in rebalance_dates)
\* variant: a wider window around the scheduled dates
SimulationRebalanceDate_wide(date) ==
    \E rd \in rebalance_dates : Abs(date - rd) <= 4

SimulationRebalanceDate(date) ==
    \E rd \in rebalance_dates : Abs(date - rd) <= 2

\* run_backtest: any(abs((date.date() - rd.date()).days) < 3 for rd in self.rebalance_dates)
BacktestRebalanceDate(date) ==
    \E rd \in rebalance_dates : Abs(date - rd) < 3

-----------------------------------------------------------------------------
(* Inputs of the weighting engine *)

MaxDrugs == 2      \* existing drugs in the table
MaxCalls == 2      \* get_patent_cliff_weights calls per behaviour

Tickers == {"A", "B", "C"}
AsOfDates == {100, 465}

Drug(ticker, revenue, kind, expiry, status) ==
    [ticker |-> ticker, revenue_billions |-> revenue, expiry_kind |-> kind,
     patent_expiry |-> expiry, status |-> status,
     launch_date |-> 0, peak_sales_estimate |-> R(5, 1)]

Launch(ticker, revenue, peak, kind, expiry, status, launch_date) ==
    [ticker |-> ticker, revenue_billions |-> revenue, expiry_kind |-> kind,
     patent_expiry |-> expiry, status |-> status,
     launch_date |-> launch_date, peak_sales_estimate |-> peak]

\* one drug per expiry bucket, status and revenue regime on ticker A, and a
\* few of them on ticker B
DrugProfiles ==
    { Drug("A", R(20, 1), "date", e, "expiring_soon") : e \in {150, 250, 400, 587, 5000} }
    \cup { Drug("A", R(20, 1), "unparseable", 0, "expiring_soon"),
           Drug("A", R(20, 1), "none", 0, "expiring_soon"),
           Drug("A", R(20, 1), "date", 5000, "still_protected"),
           Drug("A", R(20, 1), "date", 5000, "expired_in_period"),
           Drug("A", R(5, 1), "date", 5000, "expiring_soon"),
           Drug("A", R(1, 100), "date", 150, "expiring_soon") }
    \cup { Drug("B", R(20, 1), "date", e, "expiring_soon") : e \in {150, 5000} }
    \cup { Drug("B", R(20, 1), "unparseable", 0, "expiring_soon"),
           Drug("B", R(1, 100), "date", 150, "expiring_soon") }

DrugTables == UNION { [1..n -> DrugProfiles] : n \in 0..MaxDrugs }

LaunchTables ==
    { <<>>,
      <<Launch("B", R(20, 1), R(125, 4), "date", 5000, "expanding_blockbuster", 27)>>,
      <<Launch("C", R(20, 1), R(20, 1), "date", 5000, "vaccine", 392)>> }

WeightVectors ==
    UNION { [S -> {Zero, R(1, 100), R(1, 10), R(1, 2), One}] : S \in SUBSET {"A", "B"} }

LimitPairs == { <<Zero, R(9, 10)>>, <<min_weight, max_weight>>, <<R(1, 2), R(1, 2)>>,
                <<R(1, 2), R(3, 20)>>, <<Zero, Zero>> }

-----------------------------------------------------------------------------
(* Inputs of the simulation loops *)

MaxDays == 3       \* trading days in the price history

\* the two price indexes: consecutive days, and days with gaps 3, 1, 3, ...
TradingCalendars(n) ==
    { [k \in 1..n |-> k - 1],
      [k \in 1..n |-> 4 * ((k - 1) \div 2) + 3 * ((k - 1) % 2)] }

RebalanceSchedules == { {0}, {-3, 6} }

CostRates == { Zero, R(1, 1000) }

ColumnLists == { <<"A", "B">>, <<"A">>, <<"Close">> }

P(n) == R(n, 1)

\* closes of one trading day: ordinary, zero, negative and missing prices
FullPriceRows ==
    { [A |-> P(100), B |-> P(100), Close |-> P(100)],
      [A |-> P(110), B |-> P(100), Close |-> P(110)],
      [A |-> P(0), B |-> P(110), Close |-> P(0)],
      [A |-> P(-100), B |-> P(110), Close |-> P(-100)],
      [A |-> NaN, B |-> P(100), Close |-> NaN] }

PriceRows == { [t \in {columns[k] : k \in DOMAIN columns} |-> full[t]] : full \in FullPriceRows }

Target(ticker, revenue) == [ticker |-> ticker, revenue_billions |-> revenue]

CliffRow(ticker, revenue, years) ==
    [ticker |-> ticker, revenue_billions |-> revenue, years_to_expiry |-> years]

\* (TARGET_DRUGS, use_historical_data, patent_timeline) of a PatentCliffBacktester
SimulationScenarios ==
    LET AB == <<Target("A", P(10)), Target("B", P(10))>>
        rowA == CliffRow("A", P(10), P(5))
        rowB == CliffRow("B", P(10), P(5))
    IN  { <<AB, FALSE, <<>>>>,
          <<<<Target("C", P(10))>>, FALSE, <<>>>>,
          <<AB, TRUE, (0 :> <<rowA, rowB>>) @@ (2 :> <<rowB>>)>>,
          <<AB, TRUE, (0 :> <<rowA, rowA>>)>>,
          <<<<Target("C", P(10)), Target("C", P(5))>>, TRUE,
            (0 :> <<CliffRow("C", P(10), P(5)), CliffRow("C", P(5), P(5))>>)>> }

\* (BACKTEST_TARGET_DRUGS, NEW_DRUG_LAUNCHES) of an EnhancedPatentCliffBacktester
BacktestScenarios ==
    { <<<<Drug("A", P(20), "date", 5000, "expiring_soon")>>, <<>>>>,
      <<<<Drug("A", P(5), "date", 150, "expiring_soon"),
          Drug("B", P(20), "date", 2, "expiring_soon")>>, <<>>>>,
      <<<<Drug("A", P(20), "unparseable", 0, "expired_in_period")>>, <<>>>>,
      <<<<Drug("A", P(20), "date", 2, "expiring_soon")>>,
        <<Launch("B", P(20), R(125, 4), "date", 5000, "expanding_blockbuster", -27)>>>> }

\* the price columns of the frame a loop runs on.  run_simulation is handed its
\* frame; run_backtest reads self.stock_data = yf.download(all_tickers), whose only
\* price column is 'Close' (flat columns) only when all_tickers is a single ticker,
\* and which otherwise has one price column per downloaded ticker
StockDataColumns ==
    LET all_tickers == {drugs[k].ticker : k \in DOMAIN drugs}
                           \cup {launches[k].ticker : k \in DOMAIN launches}
    IN  IF loop = "run_backtest"
        THEN {c \in ColumnLists : c = <<"Close">> => Cardinality(all_tickers) = 1}
        ELSE ColumnLists

NoSimulation ==
    /\ loop = "none"
    /\ pc = "done"
    /\ target_drugs = <<>>
    /\ use_historical_data = FALSE
    /\ patent_timeline = <<>>
    /\ columns = <<>>
    /\ trading_days = <<>>
    /\ benchmark_data = <<>>
    /\ rebalance_dates = {}
    /\ transaction_cost = Zero
    /\ initial_capital = Zero
    /\ prices = <<>>
    /\ i = 0
    /\ capital = Zero
    /\ current_weights = EmptySeries
    /\ total_transaction_costs = Zero
    /\ transaction_costs_history = <<>>
    /\ weight_history = <<>>
    /\ portfolio_values = <<>>
    /\ benchmark_values = <<>>
    /\ daily_returns = <<>>
    /\ drug_performance = <<>>

\* no utility function has been called
NoUtilityCall ==
    /\ tc = [called |-> FALSE]
    /\ td = [pc |-> "idle"]
    /\ pm = [called |-> FALSE]
    /\ rr = [called |-> FALSE]
    /\ rw = [called |-> FALSE]
    /\ hd = [pc |-> "idle"]

-----------------------------------------------------------------------------
(* The weighting engine called on its own *)

InitWeights ==
    /\ drugs \in DrugTables
    /\ launches \in LaunchTables
    /\ launch_tracking = <<>>
    /\ calls = 0
    /\ as_of = 0
    /\ wres = EmptySeries
    /\ lim_in = [weights |-> EmptySeries, lo |-> Zero, hi |-> Zero]
    /\ lim_out = EmptySeries
    /\ NoSimulation
    /\ NoUtilityCall

\* weights = backtester.get_patent_cliff_weights(d)
CallGetWeights ==
    /\ calls < MaxCalls
    /\ \E d \in AsOfDates :
          /\ as_of' = d
          /\ wres' = get_patent_cliff_weights(d)
          /\ launch_tracking' = TrackLaunches(launch_tracking, d)
    /\ calls' = calls + 1
    /\ UNCHANGED <<drugs, launches, lim_in, lim_out, cfgvars, uvars, simvars>>

\* apply_position_limits(w, lo, hi) on an arbitrary weight vector
CallApplyLimits ==
    /\ calls = 0
    /\ drugs = <<>> /\ launches = <<>>
    /\ lim_in.weights = EmptySeries
    /\ \E w \in WeightVectors \ {EmptySeries}, l \in LimitPairs :
          /\ lim_in' = [weights |-> w, lo |-> l[1], hi |-> l[2]]
          /\ lim_out' = apply_position_limits(w, l[1], l[2])
    /\ UNCHANGED <<drugs, launches, launch_tracking, calls, as_of, wres, cfgvars, uvars, simvars>>

NextWeights == CallGetWeights \/ CallApplyLimits

SpecWeights == InitWeights /\ [][NextWeights]_vars

-----------------------------------------------------------------------------
(* Performance metrics.  Annualised returns and volatilities are powers and square
   roots; the model keeps the exact quantities that decide every branch and every
   ratio's denominator: len(returns), the variances (the volatility is 0, or NaN,
   exactly when the variance is) and the ratios that are rational. *)

Sum(values) == SumOver(values, DOMAIN values)

\* Series.mean(): NaN for an empty series
Mean(values) == RDiv(Sum(values), R(Len(values), 1))

SumOfProducts(x, y, mean_x, mean_y) ==
    SumOver([k \in DOMAIN x |-> RMul(RSub(x[k], mean_x), RSub(y[k], mean_y))], DOMAIN x)

\* np.cov(x, y)[0, 1] and Series.var() (ddof = 1), np.var (ddof = 0)
Covariance(x, y, ddof) ==
    IF Len(x) - ddof <= 0 THEN NaN
    ELSE RDiv(SumOfProducts(x, y, Mean(x), Mean(y)), R(Len(x) - ddof, 1))

Variance(values, ddof) == Covariance(values, values, ddof)

\* Series.pct_change().dropna()
pct_change(values) ==
    [k \in 1 .. (Len(values) - 1) |-> RSub(RDiv(values[k + 1], values[k]), One)]

RECURSIVE CumProd(_, _)
CumProd(values, k) ==
    IF k = 0 THEN One ELSE RMul(CumProd(values, k - 1), values[k])

\* (1 + returns).cumprod()
Cumulative(returns) ==
    [k \in DOMAIN returns |-> CumProd([j \in DOMAIN returns |-> RAdd(One, returns[j])], k)]

\* Series.expanding().max() / np.maximum.accumulate at position k
RECURSIVE ExpandingMax(_, _)
ExpandingMax(values, k) ==
    IF k = 1 THEN values[1] ELSE RMax(ExpandingMax(values, k - 1), values[k])

\* Series.min(): NaN for an empty series
RECURSIVE MinUpTo(_, _)
MinUpTo(values, k) ==
    IF k = 0 THEN NaN
    ELSE IF k = 1 THEN values[1]
    ELSE RMin(MinUpTo(values, k - 1), values[k])

SeriesMin(values) == MinUpTo(values, Len(values))

\* backtest.py: cumulative / cumulative.expanding().max() - 1, then min()
DrawdownOfCumulative(cumulative) ==
    SeriesMin([k \in DOMAIN cumulative |->
                 RSub(RDiv(cumulative[k], ExpandingMax(cumulative, k)), One)])

BacktesterMaxDrawdown(returns) == DrawdownOfCumulative(Cumulative(returns))

\* backtest_engine.py: (values - peak) / peak, then np.min
EngineMaxDrawdown(values) ==
    SeriesMin([k \in DOMAIN values |->
                 RDiv(RSub(values[k], ExpandingMax(values, k)), ExpandingMax(values, k))])

\* utils.safe_divide
safe_divide(numerator, denominator, default) ==
    IF denominator = Zero THEN default ELSE RDiv(numerator, denominator)

\* (returns > 0).mean()
WinRate(returns) ==
    Mean([k \in DOMAIN returns |-> IF RLt(Zero, returns[k]) THEN One ELSE Zero])

RECURSIVE SortedSeq(_)
SortedSeq(S) ==
    IF S = {} THEN <<>>
    ELSE \* the smallest date first
         <<CHOOSE x \in S : \A y \in S : x <= y>>
            \o SortedSeq(S \ {CHOOSE x \in S : \A y \in S : x <= y})

\* series.reindex(common_dates)
ReindexDates(series, dates) == [k \in DOMAIN dates |-> series[dates[k]]]

Difference(x, y) == [k \in DOMAIN x |-> RSub(x[k], y[k])]

\* the record returned by PatentCliffBacktester.calculate_performance_metrics when
\* at least one daily return exists
BacktesterMetrics(portfolio_series, benchmark_series, portfolio_returns, benchmark_returns) ==
    [ status |-> "ok",
      total_portfolio_return |->
          RSub(RDiv(portfolio_series[Len(portfolio_series)], portfolio_series[1]), One),
      total_benchmark_return |->
          RSub(RDiv(benchmark_series[Len(benchmark_series)], benchmark_series[1]), One),
      n_returns |-> Len(portfolio_returns),
      portfolio_variance |-> Variance(portfolio_returns, 1),
      benchmark_variance |-> Variance(benchmark_returns, 1),
      sharpe_is_default |-> Variance(portfolio_returns, 1) = Zero,
      max_drawdown |-> BacktesterMaxDrawdown(portfolio_returns),
      benchmark_max_dd |-> BacktesterMaxDrawdown(benchmark_returns),
      beta |-> IF Len(portfolio_returns) > 1
               THEN safe_divide(Covariance(portfolio_returns, benchmark_returns, 1),
                                Variance(benchmark_returns, 0), One)
               ELSE One,
      tracking_variance |->
          IF Len(portfolio_returns) > 1
          THEN Variance(Difference(portfolio_returns, benchmark_returns), 1)
          ELSE Zero,
      information_ratio_is_default |->
          \/ Len(portfolio_returns) <= 1
          \/ Variance(Difference(portfolio_returns, benchmark_returns), 1) = Zero,
      win_rate |-> WinRate(portfolio_returns) ]

\* PatentCliffBacktester.calculate_performance_metrics on the aligned series
BacktesterMetricsAligned(portfolio_series, benchmark_series) ==
    IF Len(portfolio_series) = 0
    THEN [status |-> "IndexError"]            \* portfolio_series.iloc[-1]
    ELSE IF Len(pct_change(portfolio_series)) = 0
    THEN [status |-> "ZeroDivisionError"]     \* 1/years with years = 0.0
    ELSE BacktesterMetrics(portfolio_series, benchmark_series,
                           pct_change(portfolio_series), pct_change(benchmark_series))

backtester_calculate_performance_metrics(portfolio_df, benchmark) ==
    BacktesterMetricsAligned(
        ReindexDates(portfolio_df, SortedSeq(DOMAIN portfolio_df \cap DOMAIN benchmark)),
        ReindexDates(benchmark, SortedSeq(DOMAIN portfolio_df \cap DOMAIN benchmark)))

\* EnhancedPatentCliffBacktester.calculate_performance_metrics on self.portfolio_history;
\* the volatility and the win rate are taken from the stored daily_returns
engine_calculate_performance_metrics(history, tracking) ==
    IF Len(history.portfolio_values) = 0
    THEN [status |-> "IndexError"]            \* portfolio_values[-1]
    ELSE [ status |-> "ok",
           total_portfolio_return |->
               RDiv(RSub(history.portfolio_values[Len(history.portfolio_values)],
                         history.portfolio_values[1]),
                    history.portfolio_values[1]),
           total_benchmark_return |->
               RDiv(RSub(history.benchmark_values[Len(history.benchmark_values)],
                         history.benchmark_values[1]),
                    history.benchmark_values[1]),
           portfolio_variance |-> Variance(history.daily_returns, 0),
           benchmark_variance |->
               IF Len(history.benchmark_values) > 1
               THEN Variance(pct_change(history.benchmark_values), 0) ELSE Zero,
           sharpe_is_default |-> ~RLt(Zero, Variance(history.daily_returns, 0)),
           max_drawdown |-> EngineMaxDrawdown(history.portfolio_values),
           win_rate |-> IF Len(history.daily_returns) > 0
                        THEN WinRate(history.daily_returns) ELSE Zero,
           total_transaction_costs |-> history.total_transaction_costs,
           final_portfolio_value |-> history.portfolio_values[Len(history.portfolio_values)],
           final_benchmark_value |-> history.benchmark_values[Len(history.benchmark_values)],
           new_launches_tracked |-> Cardinality(DOMAIN tracking) ]

\* self.portfolio_history as run_backtest stores it
PortfolioHistory(values, benchmark, returns, costs) ==
    [portfolio_values |-> values, benchmark_values |-> benchmark,
     daily_returns |-> returns, total_transaction_costs |-> costs]

(* EnhancedPatentCliffBacktester.analyze_drug_performance.  stock_data has flat
   columns and at least one row; the standard deviation of a group's returns is kept
   as its square, the population variance. *)

NotNaN(x) == ~IsNaN(x)
IsExpiredInPeriod(drug) == drug.status = "expired_in_period"
IsStillProtected(drug) == drug.status = "still_protected"

\* self.stock_data[column].dropna()
ColumnPrices(column) == SelectSeq([k \in DOMAIN prices |-> prices[k][column]], NotNaN)

\* the column read for a ticker of a group: its own, else 'Close' when the group has a
\* single ticker, else none ("")
GroupColumn(ticker, tickers) ==
    IF ticker \in {columns[k] : k \in DOMAIN columns} THEN ticker
    ELSE IF "Close" \in {columns[k] : k \in DOMAIN columns} /\ Cardinality(tickers) = 1
         THEN "Close"
    ELSE ""

\* the tickers of a group that have more than one price
GroupReturnTickers(tickers) ==
    {t \in tickers :
        /\ GroupColumn(t, tickers) # ""
        /\ Len(ColumnPrices(GroupColumn(t, tickers))) > 1}

\* (prices.iloc[-1] - prices.iloc[0]) / prices.iloc[0]
TotalReturn(series) == RDiv(RSub(series[Len(series)], series[1]), series[1])

GroupReturns(tickers) ==
    [k \in 1 .. Cardinality(GroupReturnTickers(tickers)) |->
        TotalReturn(ColumnPrices(GroupColumn(SetToSeq(GroupReturnTickers(tickers))[k],
                                             tickers)))]

GroupTickers(members) == {members[k].ticker : k \in DOMAIN members}

GroupPerformance(members) ==
    [count |-> Len(members),
     tickers |-> GroupTickers(members),
     avg_revenue |-> Mean([k \in DOMAIN members |-> members[k].revenue_billions]),
     avg_return |-> IF GroupReturns(GroupTickers(members)) = <<>> THEN Zero
                    ELSE Mean(GroupReturns(GroupTickers(members))),
     return_variance |-> IF GroupReturns(GroupTickers(members)) = <<>> THEN Zero
                         ELSE Variance(GroupReturns(GroupTickers(members)), 0)]

analyze_drug_performance ==
    [expired_drugs |-> GroupPerformance(SelectSeq(drugs, IsExpiredInPeriod)),
     protected_drugs |-> GroupPerformance(SelectSeq(drugs, IsStillProtected)),
     new_launches |->
         GroupPerformance(launches)
             @@ [avg_peak_sales |->
                    Mean([k \in DOMAIN launches |-> launches[k].peak_sales_estimate])]]

-----------------------------------------------------------------------------
(* The simulation loops *)

Init ==
    /\ loop \in {"run_simulation", "run_backtest"}
    /\ \E sc \in SimulationScenarios :
          IF loop = "run_simulation"
          THEN target_drugs = sc[1] /\ use_historical_data = sc[2] /\ patent_timeline = sc[3]
          ELSE target_drugs = <<>> /\ use_historical_data = FALSE /\ patent_timeline = <<>>
    /\ \E sc \in BacktestScenarios :
          IF loop = "run_backtest"
          THEN drugs = sc[1] /\ launches = sc[2]
          ELSE drugs = <<>> /\ launches = <<>>
    /\ columns \in StockDataColumns
    /\ \E n \in 1..MaxDays :
          /\ trading_days \in TradingCalendars(n)
          /\ benchmark_data = [k \in 1..n |-> IF k % 2 = 1 THEN P(100) ELSE P(110)]
    /\ rebalance_dates \in RebalanceSchedules
    /\ transaction_cost \in CostRates
    /\ initial_capital = P(100000)
    /\ launch_tracking = <<>>
    /\ calls = 0
    /\ as_of = 0
    /\ wres = EmptySeries
    /\ lim_in = [weights |-> EmptySeries, lo |-> Zero, hi |-> Zero]
    /\ lim_out = EmptySeries
    /\ NoUtilityCall
    /\ pc = "loop"
    /\ prices = <<>>
    /\ i = 0
    /\ capital = initial_capital
    /\ current_weights = EmptySeries
    /\ total_transaction_costs = Zero
    /\ transaction_costs_history = <<>>
    /\ weight_history = <<>>
    /\ portfolio_values = <<>>
    /\ benchmark_values = <<>>
    /\ daily_returns = <<>>
    /\ drug_performance = <<>>

\* one iteration of the day loop of PatentCliffBacktester.run_simulation
RunSimulationDay ==
    /\ loop = "run_simulation"
    /\ pc = "loop"
    /\ i < Len(trading_days)
    /\ \E date \in {trading_days[i + 1]} :
       \E is_rebalance_date \in {SimulationRebalanceDate(date) \/ DOMAIN current_weights = {}} :
          IF is_rebalance_date /\ HasDuplicateLabels(calculate_portfolio_weights(date))
          THEN \* reindex raises ValueError and the run aborts
               /\ pc' = "error"
               /\ UNCHANGED <<prices, i, capital, current_weights, total_transaction_costs,
                              transaction_costs_history, weight_history, portfolio_values,
                              benchmark_values, daily_returns, drug_performance>>
          ELSE \E weights \in {IF is_rebalance_date THEN SimulationTargetWeights(date)
                               ELSE current_weights} :
               \E charged \in {is_rebalance_date /\ ChargesCost(current_weights)} :
               \E cost \in {IF charged
                            THEN calculate_transaction_costs(current_weights, weights,
                                                             transaction_cost)
                            ELSE Zero} :
               \E after_cost \in {IF charged THEN RMul(capital, RSub(One, cost))
                                  ELSE capital} :
                  /\ current_weights' = weights
                  /\ transaction_costs_history' =
                         IF charged
                         THEN Append(transaction_costs_history,
                                     [date |-> date, cost_percent |-> cost,
                                      cost_dollars |-> RMul(after_cost, cost)])
                         ELSE transaction_costs_history
                  /\ weight_history' =
                         IF is_rebalance_date
                         THEN Append(weight_history, [date |-> date, weights |-> weights])
                         ELSE weight_history
                  /\ \E row \in PriceRows :
                     \E after_return \in
                            {IF DOMAIN weights # {} /\ i > 0
                             THEN RMul(after_cost,
                                       RAdd(One, SimulationReturn(weights, prices[i], row)))
                             ELSE after_cost} :
                        /\ prices' = Append(prices, row)
                        /\ capital' = after_return
                        /\ portfolio_values' = Append(portfolio_values, after_return)
                  /\ i' = i + 1
                  /\ UNCHANGED <<pc, total_transaction_costs, benchmark_values,
                                 daily_returns, drug_performance>>
    /\ UNCHANGED <<wvars, cfgvars, uvars>>

\* one iteration of the day loop of EnhancedPatentCliffBacktester.run_backtest
RunBacktestDay ==
    /\ loop = "run_backtest"
    /\ pc = "loop"
    /\ i < Len(trading_days)
    /\ \E date \in {trading_days[i + 1]} :
       \E rebalance \in {BacktestRebalanceDate(date) \/ i = 0} :
       \E weights \in {IF rebalance THEN get_patent_cliff_weights(date)
                       ELSE current_weights} :
       \E txn_cost \in {IF rebalance
                        THEN calculate_transaction_costs(current_weights, weights,
                                                         transaction_cost)
                        ELSE Zero} :
       \E accrue \in {DOMAIN weights # {} /\ i > 0} :
          /\ current_weights' = weights
          /\ launch_tracking' =
                 IF rebalance THEN TrackLaunches(launch_tracking, date) ELSE launch_tracking
          /\ total_transaction_costs' =
                 IF rebalance THEN RAdd(total_transaction_costs, RMul(txn_cost, capital))
                 ELSE total_transaction_costs
          /\ weight_history' =
                 IF rebalance
                 THEN Append(weight_history,
                             [date |-> date, weights |-> weights,
                              transaction_cost |-> txn_cost,
                              new_launches_available |->
                                  Cardinality({k \in DOMAIN get_available_drugs_at_date(date) :
                                                  k[2] = "_NEW"})])
                 ELSE weight_history
          /\ \E row \in PriceRows :
             \E portfolio_return \in {IF accrue THEN BacktestReturn(weights, prices[i], row)
                                      ELSE Zero} :
             \E portfolio_value \in {IF accrue THEN RMul(capital, RAdd(One, portfolio_return))
                                     ELSE capital} :
                /\ prices' = Append(prices, row)
                /\ capital' = portfolio_value
                /\ daily_returns' = Append(daily_returns, portfolio_return)
                /\ portfolio_values' = Append(portfolio_values, portfolio_value)
          /\ benchmark_values' =
                 Append(benchmark_values,
                        RMul(RDiv(benchmark_data[i + 1], benchmark_data[1]), initial_capital))
          /\ i' = i + 1
    /\ UNCHANGED <<drugs, launches, calls, as_of, wres, lim_in, lim_out, cfgvars, uvars, pc,
                   transaction_costs_history, drug_performance>>

\* the for loop is exhausted after the last trading day; run_backtest then stores
\* portfolio_history and calls calculate_performance_metrics and analyze_drug_performance
FinishLoop ==
    /\ loop # "none"
    /\ pc = "loop"
    /\ i = Len(trading_days)
    /\ pc' = "done"
    /\ IF loop = "run_backtest"
       THEN /\ pm' = [called |-> TRUE, class |-> "EnhancedPatentCliffBacktester",
                      portfolio_values |-> portfolio_values,
                      benchmark_data |-> benchmark_values,
                      daily_returns |-> daily_returns,
                      metrics |->
                          engine_calculate_performance_metrics(
                              PortfolioHistory(portfolio_values, benchmark_values,
                                               daily_returns, total_transaction_costs),
                              launch_tracking)]
            /\ drug_performance' = analyze_drug_performance
       ELSE UNCHANGED <<pm, drug_performance>>
    /\ UNCHANGED <<wvars, cfgvars, tc, td, rr, rw, hd, prices, i, capital, current_weights,
                   total_transaction_costs, transaction_costs_history, weight_history,
                   portfolio_values, benchmark_values, daily_returns>>

Next == RunSimulationDay \/ RunBacktestDay \/ FinishLoop

Spec == Init /\ [][Next]_vars

-----------------------------------------------------------------------------
(* Claims about the weighting engine (checked under SpecWeights) *)

\* tickers of every drug known to the enhanced backtester
KnownTickers ==
    {drugs[k].ticker : k \in DOMAIN drugs} \cup {launches[k].ticker : k \in DOMAIN launches}

\* C1: the vector returned by get_patent_cliff_weights is empty or its
\* entries sum to 1, for every as-of date.
C1_WeightsSumToOne ==
    calls > 0 => (DOMAIN wres = {} \/ SeriesSum(wres) = One)

\* a returned vector over two or more tickers in which clipping changed an entry
C1_Witness ==
    /\ calls > 0
    /\ Cardinality(DOMAIN wres) >= 2
    /\ \E t \in DOMAIN wres :
          LET raw == RawTickerWeights(as_of)
          IN  wres[t] # RDiv(raw[t], SeriesSum(raw))
    /\ SeriesSum(wres) = One

\* C2 as stated: every entry of apply_position_limits(w, lo, hi) lies in
\* [lo, hi] when w has positive sum and 0 <= lo <= hi, and every weight
\* returned by get_patent_cliff_weights lies in [0.02, 0.15].
C2_Original ==
    /\ (/\ RLt(Zero, SeriesSum(lim_in.weights))
        /\ RLe(Zero, lim_in.lo) /\ RLe(lim_in.lo, lim_in.hi))
       => \A t \in DOMAIN lim_out :
             RLe(lim_in.lo, lim_out[t]) /\ RLe(lim_out[t], lim_in.hi)
    /\ calls > 0 =>
         \A t \in DOMAIN wres : RLe(min_weight, wres[t]) /\ RLe(wres[t], max_weight)

\* C2 amended: for w with positive sum and 0 <= lo <= hi, with S the sum of the
\* entries of w clipped into [lo, hi], apply_position_limits(w, lo, hi) is a vector
\* over the tickers of w in which every entry x satisfies lo <= S * x <= hi
\* (single-pass renormalisation); and any two weights x, y returned by
\* get_patent_cliff_weights satisfy min_weight * y <= max_weight * x.
C2_WithinScaledLimits ==
    /\ (/\ RLt(Zero, SeriesSum(lim_in.weights))
        /\ RLe(Zero, lim_in.lo) /\ RLe(lim_in.lo, lim_in.hi))
       => LET S == SeriesSum([t \in DOMAIN lim_in.weights |->
                                 Clip(lim_in.weights[t], lim_in.lo, lim_in.hi)])
          IN  /\ DOMAIN lim_out = DOMAIN lim_in.weights
              /\ \A t \in DOMAIN lim_out :
                    /\ RLe(lim_in.lo, RMul(S, lim_out[t]))
                    /\ RLe(RMul(S, lim_out[t]), lim_in.hi)
    /\ calls > 0 =>
         \A t, u \in DOMAIN wres :
             RLe(RMul(min_weight, wres[u]), RMul(max_weight, wres[t]))

\* a direct call whose clipped sum is not 1, and an engine result in which a
\* ticker was raised to the minimum before renormalisation
C2_Witness ==
    \/ /\ RLt(Zero, SeriesSum(lim_in.weights))
       /\ RLt(Zero, lim_in.lo)
       /\ \E t \in DOMAIN lim_out : RLt(lim_in.hi, lim_out[t])
    \/ /\ calls > 0
       /\ \E t, u \in DOMAIN wres :
             /\ RMul(min_weight, wres[u]) = RMul(max_weight, wres[t])
             /\ RLt(max_weight, wres[u])

\* C3 as stated: when no drug yields a positive raw weight at the as-of
\* date, get_patent_cliff_weights returns the equal-weight vector over all
\* known tickers.
C3_EqualWeightFallback ==
    (calls > 0 /\ KnownTickers # {} /\ DOMAIN RawTickerWeights(as_of) = {})
        => wres = [t \in KnownTickers |-> R(1, Cardinality(KnownTickers))]

\* the entry of a weight vector, 0 for a ticker it does not hold
WeightAt(weights, t) == IF t \in DOMAIN weights THEN weights[t] ELSE Zero

\* a call of get_patent_cliff_weights that follows at least one earlier call
RepeatedCall == calls >= 1 /\ calls' = calls + 1

DatedDrugs(available) ==
    { k \in DOMAIN available : available[k].info.expiry_kind = "date" }

\* the vector get_patent_cliff_weights gives when the drugs without a dated expiry
\* are removed from the tables
WeightsOfDatedDrugs(available, current_date) ==
    NormalizeAndLimit(
        SumByTicker(available,
                    CountedDrugs(available, current_date) \cap DatedDrugs(available),
                    current_date))

\* C22: a drug whose patent expiry is missing or unparseable is skipped: the vector
\* returned by get_patent_cliff_weights equals the one computed with that drug
\* removed from the input.
C22_UndatedDrugSkipped ==
    calls > 0 => wres = WeightsOfDatedDrugs(get_available_drugs_at_date(as_of), as_of)

\* the status factor: the status bonus of an existing drug; for a launch the launch
\* status table times growth potential and recency
StatedStatusFactor(drug, current_date) ==
    IF drug.type = "new_launch"
    THEN RMul(RMul(NewLaunchStatusFactor(drug.info.status),
                   RMin(R(15, 10),
                        RMul(RDiv(drug.info.peak_sales_estimate,
                                  RMax(R(1, 10), drug.info.revenue_billions)),
                             R(2, 10)))),
              RecencyFactor(current_date - drug.info.launch_date))
    ELSE IF drug.info.status = "still_protected" THEN R(12, 10) ELSE One

\* the bucket of the time factor for a positive number of years (decay 0.5, horizon 2)
StatedBucket(y) ==
    IF RLe(y, R(1, 4)) THEN R(5, 100)
    ELSE IF RLe(y, R(1, 2)) THEN R(1, 10)
    ELSE IF RLe(y, One) THEN R(2, 10)
    ELSE IF RLe(y, R(2, 1)) THEN RMax(R(2, 10), RSub(One, RDiv(RSub(R(2, 1), y), R(4, 1))))
    ELSE One

\* the risk weight as the claim states it
StatedRiskWeight(drug, years, current_date) ==
    IF RLe(years, Zero) \/ drug.info.status = "expired_in_period"
    THEN Zero
    ELSE RMax(R(1, 1000),
              RMul(RMul(StatedBucket(years),
                        RMin(One, RDiv(drug.info.revenue_billions, R(10, 1)))),
                   StatedStatusFactor(drug, current_date)))

\* the tickers all of whose available drugs are existing drugs with a dated expiry
PlainTickers(available) ==
    { t \in Tickers :
        \A k \in DOMAIN available :
            available[k].info.ticker = t
               => available[k].type = "existing" /\ available[k].info.expiry_kind = "date" }

StatedTickerSum(available, t, current_date) ==
    SumOver([k \in DOMAIN available |->
                StatedRiskWeight(available[k], YearsToExpiry(available[k].info, current_date),
                                 current_date)],
            { k \in DOMAIN available : available[k].info.ticker = t })

RiskWeightAsStated(available, current_date) ==
    /\ \A k \in DatedDrugs(available) :
          calculate_risk_weight(available[k].info.revenue_billions,
                                YearsToExpiry(available[k].info, current_date),
                                current_date, available[k].info.status, available[k])
             = StatedRiskWeight(available[k], YearsToExpiry(available[k].info, current_date),
                                current_date)
    /\ \A t \in PlainTickers(available) :
          WeightAt(RawTickerWeights(current_date), t)
             = StatedTickerSum(available, t, current_date)

\* C24: calculate_risk_weight returns time_factor x min(1, revenue / 10) x status_factor
\* floored at 0.001 for a drug with years_to_expiry > 0 whose status is not
\* 'expired_in_period', and exactly expired_drug_weight (0.0) otherwise; so an expired
\* drug adds nothing to its ticker's aggregated raw weight, which for an expired drug
\* and a drug years from expiry equals the second drug's weight.
C24_RiskWeight ==
    calls > 0 => RiskWeightAsStated(get_available_drugs_at_date(as_of), as_of)

\* ticker A holds an expired drug and a drug more than 5 years from expiry
C24_Witness ==
    /\ calls > 0
    /\ as_of = 465
    /\ Len(drugs) = 2
    /\ drugs[1].ticker = "A" /\ drugs[1].expiry_kind = "date" /\ drugs[1].patent_expiry = 150
    /\ drugs[2].ticker = "A" /\ drugs[2].expiry_kind = "date" /\ drugs[2].patent_expiry = 5000
    /\ drugs[2].status = "expiring_soon"
    /\ RawTickerWeights(as_of)["A"] = One

\* the drugs the availability rule admits at date d: every existing drug, and a
\* launch under its '_NEW' key once 30 days have passed since its launch date
StatedAvailable(d) ==
    {ExistingKey(n) : n \in DOMAIN drugs}
        \cup {NewKey(n) : n \in {m \in DOMAIN launches : d >= launches[m].launch_date + 30}}

StatedTickers(d) ==
    {drugs[k[1]].ticker : k \in {e \in StatedAvailable(d) : e[2] = ""}}
        \cup {launches[k[1]].ticker : k \in {e \in StatedAvailable(d) : e[2] = "_NEW"}}

\* the call dates of the model and, for each launch, the days around the end of its
\* evaluation window
ProbeDates ==
    AsOfDates \cup UNION { {launches[n].launch_date + 29, launches[n].launch_date + 30,
                            launches[n].launch_date + 31} : n \in DOMAIN launches }

\* C29: get_available_drugs_at_date(d) holds every existing drug at every date and a
\* launch (key name + '_NEW') exactly when d >= launch_date + 30 days; the available
\* set never shrinks as d advances, and a rebalance dated before launch_date + 30
\* gets no weight from the launch.
C29_LaunchAvailability ==
    calls > 0 =>
        /\ \A d \in ProbeDates : DOMAIN get_available_drugs_at_date(d) = StatedAvailable(d)
        /\ \A d1, d2 \in ProbeDates :
              d1 <= d2 => DOMAIN get_available_drugs_at_date(d1)
                              \subseteq DOMAIN get_available_drugs_at_date(d2)
        /\ \A k \in DOMAIN launch_tracking :
              /\ k[2] = "_NEW"
              /\ launch_tracking[k].first_inclusion_date >= launches[k[1]].launch_date + 30
              /\ \A j \in DOMAIN launch_tracking[k].weights_history :
                    launch_tracking[k].weights_history[j][1]
                        >= launches[k[1]].launch_date + 30
        /\ DOMAIN wres \subseteq StatedTickers(as_of)

\* the first call is dated inside the evaluation window of a launch and leaves it out,
\* the second call is dated after the window and weights it
C29_Witness ==
    /\ calls = 2
    /\ as_of = 465
    /\ drugs # <<>>
    /\ Len(launches) = 1 /\ launches[1].launch_date = 392
    /\ NewKey(1) \in DOMAIN launch_tracking
    /\ Len(launch_tracking[NewKey(1)].weights_history) = 1
    /\ launch_tracking[NewKey(1)].first_inclusion_date = 465
    /\ "C" \in DOMAIN wres

-----------------------------------------------------------------------------
(* Claims about the simulation loops (checked under Spec) *)

\* a step that processed one trading day
DayProcessed == i' = i + 1

\* the step performed a rebalance (both loops log every rebalance)
Rebalanced == Len(weight_history') = Len(weight_history) + 1

\* cost of moving from the weights before the step to the weights after it
StepCost == calculate_transaction_costs(current_weights, current_weights', transaction_cost)

\* the price column of ticker t in a frame with the columns of row prev: the column
\* labelled t, or the single column 'Close' of the frame run_backtest downloads for a
\* table with the one ticker t; "" when t has no price column
StatedPriceColumn(t, prev) ==
    IF t \in DOMAIN prev THEN t
    ELSE IF loop = "run_backtest" /\ DOMAIN prev = {"Close"} /\ KnownTickers = {t}
         THEN "Close"
    ELSE ""

\* w_t * (p_t[i] - p_t[i-1]) / p_t[i-1] read from price column c, a missing price
\* contributing 0
StatedContribution(weight, c, prev, curr) ==
    IF c # "" /\ ~IsNaN(prev[c]) /\ ~IsNaN(curr[c])
    THEN RMul(weight, RDiv(RSub(curr[c], prev[c]), prev[c]))
    ELSE Zero

\* sum over held tickers of w_t * (p_t[i] - p_t[i-1]) / p_t[i-1], a ticker
\* without a price column or with a missing price contributing 0
StatedReturn(w, prev, curr) ==
    SumOver([t \in DOMAIN w |->
                StatedContribution(w[t], StatedPriceColumn(t, prev), prev, curr)],
            DOMAIN w)

\* the same sum with a non-positive previous price contributing 0 as well
GuardedReturn(w, prev, curr) ==
    SumOver([t \in DOMAIN w |->
                IF t \in DOMAIN prev /\ ~IsNaN(prev[t]) /\ ~IsNaN(curr[t])
                   /\ RLt(Zero, prev[t])
                THEN RMul(w[t], RDiv(RSub(curr[t], prev[t]), prev[t]))
                ELSE Zero],
            DOMAIN w)

\* C4 as stated: in each loop, a rebalance that replaces a non-empty weight
\* vector multiplies capital by (1 - cost) before the day's return accrues,
\* so the value recorded is previous value * (1 - cost) * (1 + return).
C4_CostDeductedAtRebalance ==
    [][(DayProcessed /\ Rebalanced /\ DOMAIN current_weights # {})
          => LET ret == IF loop = "run_simulation"
                        THEN SimulationReturn(current_weights', prices[i], prices'[i + 1])
                        ELSE BacktestReturn(current_weights', prices[i], prices'[i + 1])
                 accrued == IF DOMAIN current_weights' # {} /\ i > 0 THEN ret ELSE Zero
             IN  portfolio_values'[i + 1] =
                     RMul(RMul(capital, RSub(One, StepCost)), RAdd(One, accrued))]_vars

\* C5 as stated: in each loop a rebalance is performed on a trading day iff
\* the day is within 2 calendar days of a scheduled date, or it is the first
\* trading day, or the weight vector is empty at the start of the day.
C5_RebalanceTrigger ==
    [][DayProcessed
          => (Rebalanced <=>
                \/ \E rd \in rebalance_dates : Abs(trading_days[i + 1] - rd) <= 2
                \/ i = 0
                \/ DOMAIN current_weights = {})]_vars

\* C6: on every trading day i > 0 with a non-empty weight vector (and no held
\* ticker priced 0 the day before), capital is multiplied by
\* 1 + sum of w_t * (p_t[i] - p_t[i-1]) / p_t[i-1] over the held tickers, w
\* being the weights in force after the day's rebalance and p_t the price
\* column of t, and a ticker with no price column or a missing price
\* contributes 0.
C6_DailyReturnAccrued ==
    [][(/\ DayProcessed /\ i > 0 /\ DOMAIN current_weights' # {}
        /\ \A t \in DOMAIN current_weights' :
              StatedPriceColumn(t, prices[i]) # ""
                  => prices[i][StatedPriceColumn(t, prices[i])] # Zero)
          => LET factor == RAdd(One, StatedReturn(current_weights', prices[i], prices'[i + 1]))
                 charged == loop = "run_simulation" /\ Rebalanced
                            /\ DOMAIN current_weights # {}
                 base == IF charged THEN RMul(capital, RSub(One, StepCost)) ELSE capital
             IN  capital' = RMul(base, factor) /\ portfolio_values'[i + 1] = capital']_vars

\* a day on which two held tickers moved, one of them with a missing price
C6_Witness ==
    /\ i >= 2 /\ pc = "loop"
    /\ Cardinality(DOMAIN current_weights) = 2
    /\ \A t \in DOMAIN current_weights : RLt(Zero, current_weights[t])
    /\ \E t \in DOMAIN current_weights \cap DOMAIN prices[i] :
          IsNaN(prices[i][t]) /\ ~IsNaN(prices[i - 1][t])
    /\ \E t \in DOMAIN current_weights \cap DOMAIN prices[i] :
          /\ ~IsNaN(prices[i][t]) /\ ~IsNaN(prices[i - 1][t])
          /\ prices[i][t] # prices[i - 1][t] /\ prices[i - 1][t] # Zero
    /\ portfolio_values[i] # portfolio_values[i - 1]

\* C7 as stated: a held ticker whose previous-day price is zero or negative
\* contributes exactly 0 to the day's return, and the day ends with a finite
\* capital.
C7_NonPositivePriceContributesZero ==
    [][(DayProcessed /\ i > 0 /\ DOMAIN current_weights' # {} /\ IsFinite(capital))
          => LET factor == RAdd(One, GuardedReturn(current_weights', prices[i], prices'[i + 1]))
                 charged == loop = "run_simulation" /\ Rebalanced
                            /\ DOMAIN current_weights # {}
                 base == IF charged THEN RMul(capital, RSub(One, StepCost)) ELSE capital
             IN  IsFinite(capital') /\ capital' = RMul(base, factor)]_vars

\* the weight vector {T: 1.0}
HoldsOnly(w, T) == T \in DOMAIN w /\ \A t \in DOMAIN w : w[t] = (IF t = T THEN One ELSE Zero)

\* C8: with cost rate 0 and the weight vector {T: 1.0} at every rebalance
\* (T priced, with positive prices), the value recorded on every day k is
\* initial_capital * price_T[k] / price_T[0], however many rebalances occur.
C8_BuyAndHoldRoundTrip ==
    \A T \in Tickers :
        (/\ transaction_cost = Zero
         /\ \A k \in DOMAIN weight_history : HoldsOnly(weight_history[k].weights, T)
         /\ \A k \in DOMAIN prices : T \in DOMAIN prices[k] /\ RLt(Zero, prices[k][T]))
        => \A k \in DOMAIN portfolio_values :
              portfolio_values[k] =
                  RDiv(RMul(initial_capital, prices[k][T]), prices[1][T])

\* prices 100, 110 held at weight 1.0 through two rebalances: 100000 becomes 110000
C8_Witness ==
    /\ transaction_cost = Zero
    /\ Len(weight_history) >= 2
    /\ \A k \in DOMAIN weight_history : HoldsOnly(weight_history[k].weights, "A")
    /\ Len(prices) >= 2 /\ prices[1]["A"] = P(100) /\ prices[2]["A"] = P(110)
    /\ \A k \in DOMAIN prices : RLt(Zero, prices[k]["A"])
    /\ initial_capital = P(100000)
    /\ portfolio_values[2] = P(110000)

\* C9: the value recorded for the first trading day is the initial capital:
\* no return and no transaction cost is applied on day 0, although a
\* rebalance from the empty weight vector takes place that day.
C9_FirstDayRecordsInitialCapital ==
    Len(portfolio_values) >= 1
        => /\ portfolio_values[1] = initial_capital
           /\ Len(weight_history) >= 1
           /\ weight_history[1].date = trading_days[1]

\* a first day on which a non-empty vector was installed at a positive cost rate
C9_Witness ==
    /\ Len(portfolio_values) >= 1
    /\ RLt(Zero, transaction_cost)
    /\ DOMAIN weight_history[1].weights # {}
    /\ RLt(Zero, calculate_transaction_costs(EmptySeries, weight_history[1].weights,
                                              transaction_cost))

\* C10 as stated: each loop visits every trading day exactly once in order,
\* appends one value record per trading day and terminates after the last
\* trading day, so the value history is as long as the price index.
C10_EveryDayVisitedOnce ==
    /\ Len(portfolio_values) = i
    /\ i <= Len(trading_days)
    /\ pc # "loop" => (pc = "done" /\ Len(portfolio_values) = Len(trading_days))

NoTargetColumn ==
    loop = "run_simulation" /\ \A k \in DOMAIN columns : columns[k] \notin TargetTickers

FallbackUniverse ==
    { columns[k] : k \in 1 .. (IF Len(columns) < 5 THEN Len(columns) ELSE 5) }

\* C19: when no target ticker is a price column, run_simulation uses the first
\* min(5, number of columns) columns, installs equal weight 1/k on them at every
\* rebalance, and completes with one value record per trading day.
C19_FallbackUniverse ==
    NoTargetColumn =>
        /\ pc # "error"
        /\ \A j \in DOMAIN weight_history :
              weight_history[j].weights =
                  [t \in FallbackUniverse |-> R(1, Cardinality(FallbackUniverse))]
        /\ pc = "done" => Len(portfolio_values) = Len(trading_days)

\* C20: every weight vector a weighting routine hands to the simulator has at most
\* one entry per ticker, and the simulator's rebalance consumes a vector built from
\* two drugs of the same ticker without error.
C20_OneEntryPerTicker ==
    loop = "run_simulation" =>
        /\ pc # "error"
        /\ pc = "done" =>
              \A k \in DOMAIN trading_days :
                  ~HasDuplicateLabels(calculate_portfolio_weights(trading_days[k]))

\* a step that processes a trading day on which nothing triggers a rebalance: the day
\* is more than 2 calendar days from every scheduled date, it is not the first day of
\* run_backtest, and run_simulation holds a non-empty weight vector
QuietDay ==
    /\ DayProcessed
    /\ \A rd \in rebalance_dates : Abs(trading_days[i + 1] - rd) > 2
    /\ loop = "run_backtest" => i > 0
    /\ loop = "run_simulation" => DOMAIN current_weights # {}

\* C26: a trading day that does not trigger a rebalance leaves the weight vector, the
\* cumulative transaction costs and the rebalance and weight histories unchanged; only
\* capital changes, and it is the value record appended for the day.
C26_OnlyCapitalChangesBetweenRebalances ==
    [][QuietDay =>
          /\ current_weights' = current_weights
          /\ total_transaction_costs' = total_transaction_costs
          /\ transaction_costs_history' = transaction_costs_history
          /\ weight_history' = weight_history
          /\ launch_tracking' = launch_tracking
          /\ portfolio_values' = Append(portfolio_values, capital')]_vars

\* two days after the only rebalance, with capital moved by the returns
C26_Witness ==
    /\ i = 3
    /\ Len(weight_history) = 1
    /\ DOMAIN current_weights # {}
    /\ capital # initial_capital
    /\ portfolio_values[3] = capital

\* every price of every processed day is a positive number
PositivePrices ==
    \A k \in DOMAIN prices : \A t \in DOMAIN prices[k] : RLt(Zero, prices[k][t])

\* every installed weight vector is non-negative and sums to at most 1
WeightsWithinBudget ==
    \A j \in DOMAIN weight_history :
        /\ \A t \in DOMAIN weight_history[j].weights : RLe(Zero, weight_history[j].weights[t])
        /\ RLe(SeriesSum(weight_history[j].weights), One)

\* C27: with a positive initial capital, positive prices, a cost rate in [0, 0.5) and
\* non-negative weight vectors of sum at most 1, capital and every recorded value are
\* strictly positive in every state of each loop.
C27_CapitalStaysPositive ==
    (/\ RLt(Zero, initial_capital)
     /\ PositivePrices
     /\ RLe(Zero, transaction_cost) /\ RLt(transaction_cost, R(1, 2))
     /\ WeightsWithinBudget)
        => /\ RLt(Zero, capital)
           /\ \A k \in DOMAIN portfolio_values : RLt(Zero, portfolio_values[k])

\* a run on positive prices that paid a rebalance cost and lost money
C27_Witness ==
    /\ PositivePrices /\ WeightsWithinBudget
    /\ transaction_cost = R(1, 1000)
    /\ Len(transaction_costs_history) >= 1
    /\ i >= 2
    /\ RLt(capital, initial_capital)
    /\ RLt(Zero, capital)

-----------------------------------------------------------------------------
(* Utility functions called on their own (src/utils.py, metrics, main.py) *)

UtilityRates == { Zero, R(1, 1000), R(1, 100) }

UtilitiesIdle ==
    /\ tc.called = FALSE
    /\ td.pc = "idle"
    /\ pm.called = FALSE
    /\ rr.called = FALSE
    /\ rw.called = FALSE
    /\ hd.pc = "idle"

InitUtils ==
    /\ drugs = {}
    /\ launches = {}
    /\ launch_tracking = EmptySeries
    /\ calls = 0
    /\ as_of = 0
    /\ wres = EmptySeries
    /\ lim_in = EmptySeries
    /\ lim_out = EmptySeries
    /\ NoSimulation
    /\ NoUtilityCall

\* utils.calculate_transaction_costs(old_weights, new_weights, cost_rate)
CallTransactionCosts ==
    /\ UtilitiesIdle
    /\ \E old_weights \in WeightVectors, new_weights \in WeightVectors, cost_rate \in UtilityRates :
          tc' = [called |-> TRUE, old_weights |-> old_weights, new_weights |-> new_weights,
                 cost_rate |-> cost_rate,
                 result |-> calculate_transaction_costs(old_weights, new_weights, cost_rate)]
    /\ UNCHANGED <<wvars, cfgvars, simvars, td, pm, rr, rw, hd>>

\* datetime values are (year, month, day) records
Date(y, m, d) == [year |-> y, month |-> m, day |-> d]

IsLeapYear(y) == (y % 4 = 0 /\ y % 100 # 0) \/ y % 400 = 0

DaysInMonth(y, m) ==
    IF m = 2 THEN (IF IsLeapYear(y) THEN 29 ELSE 28)
    ELSE IF m \in {4, 6, 9, 11} THEN 30 ELSE 31

\* datetime comparison
DateLt(a, b) ==
    \/ a.year < b.year
    \/ a.year = b.year /\ a.month < b.month
    \/ a.year = b.year /\ a.month = b.month /\ a.day < b.day

DateLe(a, b) == a = b \/ DateLt(a, b)

\* datetime.replace(year=y, month=m): ValueError when the day does not exist there
Replace(current, y, m) ==
    IF current.day > DaysInMonth(y, m)
    THEN [raised |-> TRUE, date |-> current]
    ELSE [raised |-> FALSE, date |-> Date(y, m, current.day)]

\* "Move to next month"
NextMonthly(current) ==
    IF current.month = 12
    THEN Replace(current, current.year + 1, 1)
    ELSE Replace(current, current.year, current.month + 1)

\* variant: the quarterly branch advances month by month
NextQuarterly_monthly(current) == NextMonthly(current)

\* "Move to next quarter"
NextQuarterly(current) ==
    IF current.month <= 3 THEN Replace(current, current.year, 6)
    ELSE IF current.month <= 6 THEN Replace(current, current.year, 9)
    ELSE IF current.month <= 9 THEN Replace(current, current.year, 12)
    ELSE Replace(current, current.year + 1, 3)

NextAnnually(current) == Replace(current, current.year + 1, current.month)

Frequencies == {"monthly", "quarterly", "annually"}

NextDate(frequency, current) ==
    IF frequency = "monthly" THEN NextMonthly(current)
    ELSE IF frequency = "quarterly" THEN NextQuarterly(current)
    ELSE NextAnnually(current)

\* variant: the loops stop one step early
LoopContinues_strict(current, end) == DateLt(current, end)

\* while current <= end
LoopContinues(current, end) == DateLe(current, end)

MaxYears == 2
Years == 2020 .. (2020 + MaxYears - 1)
StartDays == {1, 15, 28, 29, 30, 31}

StartDates ==
    { d \in [year : Years, month : 1 .. 12, day : StartDays] :
        d.day <= DaysInMonth(d.year, d.month) }

EndDates ==
    {Date(2019, 12, 31)} \cup { Date(y, 6, 30) : y \in Years } \cup { Date(y, 12, 31) : y \in Years }

\* get_trading_dates(start_date, end_date, frequency): parse, dates = [], current = start
CallGetTradingDates ==
    /\ UtilitiesIdle
    /\ \E start \in StartDates, frequency \in Frequencies \cup {"weekly"} :
         \E end \in EndDates \cup {start} :
            td' = [pc |-> "loop", start_date |-> start, end_date |-> end,
                   frequency |-> frequency, current |-> start, dates |-> <<>>]
    /\ UNCHANGED <<wvars, cfgvars, simvars, tc, pm, rr, rw, hd>>

\* one iteration of the while loop of the chosen frequency
GetTradingDatesIterate ==
    /\ td.pc = "loop"
    /\ td.frequency \in Frequencies
    /\ LoopContinues(td.current, td.end_date)
    /\ \E next \in {NextDate(td.frequency, td.current)} :
          td' = [td EXCEPT !.dates = Append(td.dates, td.current),
                           !.current = next.date,
                           !.pc = IF next.raised THEN "raised" ELSE "loop"]
    /\ UNCHANGED <<wvars, cfgvars, simvars, tc, pm, rr, rw, hd>>

\* return dates
GetTradingDatesReturn ==
    /\ td.pc = "loop"
    /\ td.frequency \notin Frequencies \/ ~LoopContinues(td.current, td.end_date)
    /\ td' = [td EXCEPT !.pc = "returned"]
    /\ UNCHANGED <<wvars, cfgvars, simvars, tc, pm, rr, rw, hd>>

(* Inputs of the performance metrics *)

MaxObs == 3
PortfolioValues == { R(50, 1), R(100, 1), R(200, 1) }
BenchmarkValues == { R(100, 1), R(200, 1) }

ValueSeries(values, n) == [1 .. n -> values]

\* PatentCliffBacktester.calculate_performance_metrics(portfolio_df, benchmark_data)
CallBacktesterMetrics ==
    /\ UtilitiesIdle
    /\ \E n \in 1 .. MaxObs :
         \E portfolio_df \in ValueSeries(PortfolioValues, n), dates \in SUBSET (1 .. n) :
           \E benchmark \in [dates -> BenchmarkValues] :
              pm' = [called |-> TRUE, class |-> "PatentCliffBacktester",
                     portfolio_values |->
                         ReindexDates(portfolio_df, SortedSeq(DOMAIN portfolio_df \cap dates)),
                     benchmark_data |-> benchmark,
                     metrics |-> backtester_calculate_performance_metrics(portfolio_df, benchmark)]
    /\ UNCHANGED <<wvars, cfgvars, simvars, tc, td, rr, rw, hd>>

\* the portfolio_values run_backtest stores with these daily returns:
\* portfolio_value *= (1 + portfolio_return) on every day, from the initial capital
StoredPortfolioValues(capital0, returns) ==
    [k \in DOMAIN returns |-> RMul(capital0, Cumulative(returns)[k])]

\* the daily_returns run_backtest can store: 0 for the first day, then one portfolio
\* return per day
DayReturns == { Zero, One, R(-1, 2), R(-1, 1) }
StoredDailyReturns(n) == { returns \in [1 .. n -> DayReturns] : n > 0 => returns[1] = Zero }

\* EnhancedPatentCliffBacktester.calculate_performance_metrics()
CallEngineMetrics ==
    /\ UtilitiesIdle
    /\ \E n \in 0 .. MaxObs :
         \E returns \in StoredDailyReturns(n), benchmark \in ValueSeries(BenchmarkValues, n) :
              pm' = [called |-> TRUE, class |-> "EnhancedPatentCliffBacktester",
                     portfolio_values |-> StoredPortfolioValues(R(100, 1), returns),
                     benchmark_data |-> benchmark,
                     daily_returns |-> returns,
                     metrics |->
                         engine_calculate_performance_metrics(
                             PortfolioHistory(StoredPortfolioValues(R(100, 1), returns),
                                              benchmark, returns, Zero),
                             <<>>)]
    /\ UNCHANGED <<wvars, cfgvars, simvars, tc, td, rr, rw, hd>>

(* PatentCliffAnalyzer (src/main.py).  An entry of company_revenues is a record:
   none = TRUE is the None that get_latest_revenues stores for a failed fetch. *)

NoRevenue == [none |-> TRUE, value |-> NaN]
Revenue(v) == [none |-> FALSE, value |-> v]

\* self.company_revenues.get(ticker, 50.0): the default only for a missing key
RevenueGet(company_revenues, ticker) ==
    IF ticker \in DOMAIN company_revenues
    THEN company_revenues[ticker]
    ELSE Revenue(fallback_total_revenue)

\* PatentCliffAnalyzer.calculate_revenue_risk
analyzer_calculate_revenue_risk(cliff_analysis, company_revenues) ==
    IF \E k \in DOMAIN cliff_analysis : RevenueGet(company_revenues, cliff_analysis[k].ticker).none
    THEN [status |-> "TypeError"]             \* None > 0
    ELSE [ status |-> "ok",
           rows |-> [k \in DOMAIN cliff_analysis |->
              [ ticker |-> cliff_analysis[k].ticker,
                total_company_revenue |->
                    RevenueGet(company_revenues, cliff_analysis[k].ticker).value,
                revenue_at_risk_percent |->
                    IF RLt(Zero, RevenueGet(company_revenues, cliff_analysis[k].ticker).value)
                    THEN RMul(RDiv(cliff_analysis[k].revenue_billions,
                                   RevenueGet(company_revenues, cliff_analysis[k].ticker).value),
                              R(100, 1))
                    ELSE Zero ]] ]

\* cliff_analysis['ticker'].unique(): first appearances, in order
RECURSIVE UniqueTickers(_, _)
UniqueTickers(cliff_analysis, k) ==
    IF k = 0 THEN <<>>
    ELSE IF \E j \in 1 .. (k - 1) : cliff_analysis[j].ticker = cliff_analysis[k].ticker
         THEN UniqueTickers(cliff_analysis, k - 1)
         ELSE Append(UniqueTickers(cliff_analysis, k - 1), cliff_analysis[k].ticker)

RowsOf(cliff_analysis, ticker) ==
    { k \in DOMAIN cliff_analysis : cliff_analysis[k].ticker = ticker }

\* (date - pd.Timestamp.now()).days: whole days, rounded down.  Dates are day numbers
\* (midnight); a clock reading counts half days, so reading 2 * d is midnight of day d
DaysUntil(date, clock) == (2 * date - clock) \div 2

\* the tail of analyze_patent_cliffs: days_to_expiry and years_to_expiry of every
\* drug found, at one reading of the clock
analyze_patent_cliffs(found_drugs, clock) ==
    [k \in DOMAIN found_drugs |->
        [ ticker |-> found_drugs[k].ticker,
          revenue_billions |-> found_drugs[k].revenue_billions,
          latest_patent_expiry |-> found_drugs[k].latest_patent_expiry,
          days_to_expiry |-> DaysUntil(found_drugs[k].latest_patent_expiry, clock),
          years_to_expiry |->
              R(DaysUntil(found_drugs[k].latest_patent_expiry, clock), 365) ]]

\* company_drugs['latest_patent_expiry'].min()
EarliestCliff(cliff_analysis, rows) ==
    CHOOSE e \in { cliff_analysis[k].latest_patent_expiry : k \in rows } :
        \A k \in rows : e <= cliff_analysis[k].latest_patent_expiry

\* one company row; the clock is read again for years_to_earliest_cliff
CompanyRiskRow(cliff_analysis, ticker, clock) ==
    [ ticker |-> ticker,
      total_drug_revenue_at_risk |->
          SumOver([k \in RowsOf(cliff_analysis, ticker) |-> cliff_analysis[k].revenue_billions],
                  RowsOf(cliff_analysis, ticker)),
      years_to_earliest_cliff |->
          R(DaysUntil(EarliestCliff(cliff_analysis, RowsOf(cliff_analysis, ticker)), clock),
            365),
      number_of_drugs_at_risk |-> Cardinality(RowsOf(cliff_analysis, ticker)) ]

CompanyRiskRows(cliff_analysis, tickers, clocks) ==
    [j \in DOMAIN tickers |-> CompanyRiskRow(cliff_analysis, tickers[j], clocks[j])]

\* PatentCliffAnalyzer.calculate_company_risk, with the clock readings it takes, one
\* per company
analyzer_calculate_company_risk(cliff_analysis, clocks) ==
    CompanyRiskRows(cliff_analysis, UniqueTickers(cliff_analysis, Len(cliff_analysis)),
                    clocks)

\* main.py: max(0.5, 1 - (number_of_drugs_at_risk - 1) * diversification_penalty)
AnalyzerDiversificationFactor(row) ==
    RMax(R(1, 2),
         RSub(One, RMul(R(row.number_of_drugs_at_risk - 1, 1), diversification_penalty)))

\* time_factor * risk_factor * diversification_factor of one company row
AnalyzerRawWeight(row, total_revenue) ==
    RMul(RMul(RMax(R(1, 10), RMin(One, RDiv(row.years_to_earliest_cliff, R(5, 1)))),
              RMax(R(1, 10),
                   RSub(One, RMin(R(9, 10),
                                  RDiv(RMul(RDiv(row.total_drug_revenue_at_risk, total_revenue),
                                            R(100, 1)),
                                       R(100, 1)))))),
         AnalyzerDiversificationFactor(row))

AnalyzerRawWeights(company_risk, company_revenues) ==
    [t \in { company_risk[j].ticker : j \in DOMAIN company_risk } |->
        AnalyzerRawWeight(
            company_risk[CHOOSE j \in DOMAIN company_risk : company_risk[j].ticker = t],
            RevenueGet(company_revenues, t).value)]

\* PatentCliffAnalyzer.calculate_portfolio_weights
analyzer_calculate_portfolio_weights(company_risk, company_revenues) ==
    IF \E j \in DOMAIN company_risk : RevenueGet(company_revenues, company_risk[j].ticker).none
    THEN [status |-> "TypeError"]             \* float / None
    ELSE [ status |-> "ok",
           total_revenue |->
               [t \in { company_risk[j].ticker : j \in DOMAIN company_risk } |->
                   RevenueGet(company_revenues, t).value],
           diversification_factor |->
               [t \in { company_risk[j].ticker : j \in DOMAIN company_risk } |->
                   AnalyzerDiversificationFactor(
                       company_risk[CHOOSE j \in DOMAIN company_risk :
                                        company_risk[j].ticker = t])],
           raw_weight |-> AnalyzerRawWeights(company_risk, company_revenues),
           normalized_portfolio_weight |->
               apply_position_limits(AnalyzerRawWeights(company_risk, company_revenues),
                                     Zero, R(9, 10)) ]

MaxRows == 2
AnalyzerTickers == {"A", "B"}

CliffAnalysisRows ==
    [ ticker : AnalyzerTickers, revenue_billions : { R(5, 1), R(20, 1) },
      years_to_expiry : { One, R(10, 1) } ]

CliffAnalyses == UNION { [1 .. n -> CliffAnalysisRows] : n \in 1 .. MaxRows }

RevenueEntries == { NoRevenue, Revenue(R(50, 1)), Revenue(R(10, 1)) }

CompanyRevenueMaps == UNION { [S -> RevenueEntries] : S \in SUBSET AnalyzerTickers }

\* the drugs analyze_patent_cliffs finds, with the day of their latest patent expiry
FoundDrugRows ==
    [ ticker : AnalyzerTickers, revenue_billions : { R(5, 1), R(20, 1) },
      latest_patent_expiry : { 365, 3650 } ]

FoundDrugs == UNION { [1 .. n -> FoundDrugRows] : n \in 1 .. MaxRows }

\* readings of pd.Timestamp.now() in half days: midnight and noon of day 0, and the
\* readings a later call can get
ClockReadings == { 0, 1 }
LaterReadings(clock, n) ==
    { clocks \in [1 .. n -> { clock, clock + 1, clock + 2 }] :
        \A j \in 1 .. (n - 1) : clocks[j] <= clocks[j + 1] }

\* PatentCliffAnalyzer.calculate_revenue_risk(cliff_analysis)
CallCalculateRevenueRisk ==
    /\ UtilitiesIdle
    /\ \E found_drugs \in FoundDrugs, clock \in ClockReadings,
          company_revenues \in CompanyRevenueMaps :
          rr' = [called |-> TRUE, method |-> "calculate_revenue_risk",
                 cliff_analysis |-> analyze_patent_cliffs(found_drugs, clock),
                 company_revenues |-> company_revenues,
                 result |->
                     analyzer_calculate_revenue_risk(analyze_patent_cliffs(found_drugs, clock),
                                                     company_revenues)]
    /\ UNCHANGED <<wvars, cfgvars, simvars, tc, td, pm, rw, hd>>

\* PatentCliffAnalyzer.calculate_portfolio_weights(calculate_company_risk(cliff_analysis))
CallCalculatePortfolioWeights ==
    /\ UtilitiesIdle
    /\ \E found_drugs \in FoundDrugs, clock \in ClockReadings,
          company_revenues \in CompanyRevenueMaps :
       \E later \in LaterReadings(clock, Len(UniqueTickers(found_drugs, Len(found_drugs)))) :
          rr' = [called |-> TRUE, method |-> "calculate_portfolio_weights",
                 cliff_analysis |-> analyze_patent_cliffs(found_drugs, clock),
                 company_revenues |-> company_revenues,
                 clocks |-> later,
                 company_risk |->
                     analyzer_calculate_company_risk(
                         analyze_patent_cliffs(found_drugs, clock), later),
                 result |-> analyzer_calculate_portfolio_weights(
                                analyzer_calculate_company_risk(
                                    analyze_patent_cliffs(found_drugs, clock), later),
                                company_revenues)]
    /\ UNCHANGED <<wvars, cfgvars, simvars, tc, td, pm, rw, hd>>

RiskYears ==
    { R(-1, 1), Zero, R(1, 8), R(1, 4), R(3, 8), R(1, 2), R(3, 4), One, R(5, 4), R(3, 2),
      R(2, 1), R(5, 2), R(10, 1), NaN }

RiskRevenues == { R(1, 100), R(5, 1), R(10, 1), R(20, 1) }

RiskStatuses == { "expiring_soon", "still_protected", "expired_in_period", "blockbuster" }

RiskCallDate == 100

\* drug_info of an existing drug, and of a launch 73, 400 and 800 days old
RiskDrugs(revenue, status) ==
    { [info |-> Drug("A", revenue, "date", 0, status), type |-> "existing"] }
    \cup { [info |-> Launch("A", revenue, R(125, 4), "date", 0, status, launch_date),
            type |-> "new_launch"] : launch_date \in {27, -300, -700} }

\* calculate_risk_weight(ticker, drug_name, drug_revenue, years_to_expiry, current_date,
\*                       drug_status, drug_info)
CallCalculateRiskWeight ==
    /\ UtilitiesIdle
    /\ \E years_to_expiry \in RiskYears, drug_revenue \in RiskRevenues,
          drug_status \in RiskStatuses :
         \E drug_info \in RiskDrugs(drug_revenue, drug_status) :
            rw' = [called |-> TRUE, years_to_expiry |-> years_to_expiry,
                   drug_revenue |-> drug_revenue, drug_status |-> drug_status,
                   drug_info |-> drug_info, current_date |-> RiskCallDate,
                   expired |-> RLe(years_to_expiry, Zero) \/ drug_status = "expired_in_period",
                   time_factor |->
                       IF RLe(years_to_expiry, Zero) \/ drug_status = "expired_in_period"
                       THEN Zero
                       ELSE time_factor(years_to_expiry),
                   weight |-> calculate_risk_weight(drug_revenue, years_to_expiry,
                                                    RiskCallDate, drug_status, drug_info)]
    /\ UNCHANGED <<wvars, cfgvars, simvars, tc, td, pm, rr, hd>>

HistoricalRevenueMaps ==
    UNION { [S -> { R(50, 1), R(10, 1) }] : S \in SUBSET AnalyzerTickers }

\* HistoricalPatentCliffAnalyzer.calculate_portfolio_weights_historical on the cliff
\* data that get_patent_data_for_date found for the analysis date
CallHistoricalWeights ==
    /\ UtilitiesIdle
    /\ \E cliff_analysis \in CliffAnalyses, company_revenues \in HistoricalRevenueMaps :
          rr' = [called |-> TRUE, method |-> "calculate_portfolio_weights_historical",
                 cliff_analysis |-> cliff_analysis, company_revenues |-> company_revenues,
                 result |->
                    [ status |-> "ok",
                      raw_weight |->
                          [k \in DOMAIN cliff_analysis |->
                              HistoricalRawWeight(cliff_analysis[k], company_revenues)],
                      weights |->
                          HistoricalWeights([found |-> TRUE, date |-> 0,
                                             rows |-> cliff_analysis],
                                            company_revenues) ]]
    /\ UNCHANGED <<wvars, cfgvars, simvars, tc, td, pm, rw, hd>>

TimelineDates == {2, 5}
AnalysisDates == {0, 2, 3, 5, 7}

\* the cliff analysis stored for a timeline date
TimelineRows(d) == <<CliffRow("A", P(10), R(d, 1))>>

\* HistoricalPatentManager.build_patent_timeline: self.patent_timeline = timeline, one
\* entry per analysis date whose cliff analysis is not empty
BuildPatentTimeline ==
    /\ UtilitiesIdle
    /\ \E dates \in SUBSET TimelineDates :
          patent_timeline' = [d \in dates |-> TimelineRows(d)]
    /\ hd' = [pc |-> "built"]
    /\ UNCHANGED <<wvars, loop, target_drugs, use_historical_data, columns, trading_days,
                   benchmark_data, rebalance_dates, transaction_cost, initial_capital,
                   simvars, tc, td, pm, rr, rw>>

\* HistoricalPatentManager.get_patent_data_for_date(analysis_date)
CallGetPatentDataForDate ==
    /\ hd.pc = "built"
    /\ \E analysis_date \in AnalysisDates :
          hd' = [pc |-> "returned", analysis_date |-> analysis_date,
                 result |-> get_patent_data_for_date(analysis_date)]
    /\ UNCHANGED <<wvars, cfgvars, simvars, tc, td, pm, rr, rw>>

NextUtils ==
    \/ CallTransactionCosts
    \/ BuildPatentTimeline
    \/ CallGetPatentDataForDate
    \/ CallHistoricalWeights
    \/ CallCalculateRiskWeight
    \/ CallCalculateRevenueRisk
    \/ CallCalculatePortfolioWeights
    \/ CallBacktesterMetrics
    \/ CallEngineMetrics
    \/ CallGetTradingDates
    \/ GetTradingDatesIterate
    \/ GetTradingDatesReturn

SpecUtils == InitUtils /\ [][NextUtils]_vars

-----------------------------------------------------------------------------
(* Claims about the utility functions *)

Turnover(old_weights, new_weights) ==
    SumOver([t \in DOMAIN old_weights \cup DOMAIN new_weights |->
                RAbs(RSub(WeightAt(new_weights, t), WeightAt(old_weights, t)))],
            DOMAIN old_weights \cup DOMAIN new_weights)

\* C11: calculate_transaction_costs returns cost_rate times the sum, over the union of
\* the two vectors' tickers, of |new_i - old_i| with a missing ticker counted as 0; the
\* result is the same with the two vectors exchanged, is 0 when they are equal, and
\* for a non-negative rate does not decrease when the turnover grows.
C11_TransactionCosts ==
    tc.called =>
        /\ tc.result = RMul(Turnover(tc.old_weights, tc.new_weights), tc.cost_rate)
        /\ tc.result = calculate_transaction_costs(tc.new_weights, tc.old_weights, tc.cost_rate)
        /\ (tc.old_weights = tc.new_weights => tc.result = Zero)
        /\ \A other \in WeightVectors :
              RLe(Turnover(tc.old_weights, tc.new_weights), Turnover(tc.old_weights, other))
                 => RLe(tc.result,
                        calculate_transaction_costs(tc.old_weights, other, tc.cost_rate))

C11_Witness ==
    /\ tc.called
    /\ DOMAIN tc.old_weights = {"A", "B"}
    /\ DOMAIN tc.new_weights = {"A"}
    /\ tc.old_weights["B"] = R(1, 2)
    /\ tc.cost_rate = R(1, 1000)
    /\ RLt(Zero, tc.result)

MonthsBetween(a, b) == (b.year - a.year) * 12 + (b.month - a.month)

Returned(frequency) == td.pc = "returned" /\ td.frequency = frequency

\* C12: a quarterly schedule from January 1 to December 31 of one year (such as
\* 2020-01-01 to 2020-12-31) contains exactly 4 dates.
C12_QuarterlyYearHasFourDates ==
    (/\ Returned("quarterly")
     /\ td.start_date = Date(td.start_date.year, 1, 1)
     /\ td.end_date = Date(td.start_date.year, 12, 31))
        => Len(td.dates) = 4

C12_Witness ==
    /\ Returned("quarterly")
    /\ td.start_date = Date(2020, 1, 1)
    /\ td.end_date = Date(2020, 12, 31)
    /\ Len(td.dates) = 4

\* C13: in a returned quarterly list every date after the first is exactly 3 calendar
\* months after its predecessor, on the same day of the month.
C13_QuarterlyThreeMonthSteps ==
    Returned("quarterly") =>
        \A k \in 2 .. Len(td.dates) :
            /\ MonthsBetween(td.dates[k - 1], td.dates[k]) = 3
            /\ td.dates[k].day = td.dates[k - 1].day

\* C14: for a call with one of the three frequencies and start_date <= end_date that
\* returns, the list is non-empty, starts with start_date, is strictly increasing, has
\* no element after end_date, and the period step after its last element is after
\* end_date; a returned list is empty only when start_date > end_date.
C14_ScheduleShape ==
    (td.pc = "returned" /\ td.frequency \in Frequencies) =>
        /\ (td.dates = <<>>) => DateLt(td.end_date, td.start_date)
        /\ DateLe(td.start_date, td.end_date) =>
              /\ td.dates # <<>>
              /\ td.dates[1] = td.start_date
              /\ \A k \in 2 .. Len(td.dates) : DateLt(td.dates[k - 1], td.dates[k])
              /\ \A k \in 1 .. Len(td.dates) : DateLe(td.dates[k], td.end_date)
              /\ ~NextDate(td.frequency, td.dates[Len(td.dates)]).raised
              /\ DateLt(td.end_date, NextDate(td.frequency, td.dates[Len(td.dates)]).date)

C14_Witness ==
    /\ td.pc = "returned"
    /\ td.frequency = "monthly"
    /\ td.start_date = td.end_date
    /\ td.dates = <<td.start_date>>

\* C15: no call of get_trading_dates with a valid start date, end date and one of the
\* three frequencies raises, start days 29, 30, 31 and February 29 included.
C15_NeverRaises ==
    td.pc # "raised"

NonDecreasing(values) == \A k \in 2 .. Len(values) : RLe(values[k - 1], values[k])

MetricsReturned == pm.called /\ pm.metrics.status = "ok"

\* C16: for a positive value series the maximum drawdown reported by either metrics
\* function is <= 0, and it is 0 only if the series, first observation included, never
\* decreases (so a series that falls below its first value and recovers reports a
\* strictly negative maximum drawdown).
C16_MaxDrawdown ==
    MetricsReturned =>
        /\ RLe(pm.metrics.max_drawdown, Zero)
        /\ (pm.metrics.max_drawdown = Zero => NonDecreasing(pm.portfolio_values))

\* C17: PatentCliffBacktester.calculate_performance_metrics always returns a metrics
\* record: Sharpe is the default 0 when the volatility is 0, beta is 1.0 when the
\* benchmark variance is 0, the information ratio is the default 0 when the tracking
\* error is 0, and a call whose series share fewer than two dates returns as well.
C17_MetricsNeverRaise ==
    (pm.called /\ pm.class = "PatentCliffBacktester") =>
        /\ pm.metrics.status = "ok"
        /\ (pm.metrics.portfolio_variance = Zero => pm.metrics.sharpe_is_default)
        /\ (pm.metrics.benchmark_variance = Zero => pm.metrics.beta = One)
        /\ (pm.metrics.tracking_variance = Zero => pm.metrics.information_ratio_is_default)

\* the tickers of the analysed drugs whose revenue lookup holds no revenue
TickersWithoutRevenue ==
    { rr.cliff_analysis[k].ticker : k \in DOMAIN rr.cliff_analysis } \
        { t \in DOMAIN rr.company_revenues : ~rr.company_revenues[t].none }

\* C18: when the revenue lookup has no revenue for a ticker (key absent, or present
\* with None), calculate_revenue_risk and calculate_portfolio_weights complete and
\* use 50.0 as that ticker's total revenue.
C18_MissingRevenueFallsBack ==
    rr.called =>
        /\ rr.result.status = "ok"
        /\ rr.method = "calculate_revenue_risk" =>
              \A k \in DOMAIN rr.cliff_analysis :
                  rr.cliff_analysis[k].ticker \in TickersWithoutRevenue
                     => rr.result.rows[k].total_company_revenue = fallback_total_revenue
        /\ rr.method = "calculate_portfolio_weights" =>
              \A t \in TickersWithoutRevenue :
                  rr.result.total_revenue[t] = fallback_total_revenue

\* the time factor as the claim states it, for the default horizon and decay
StatedTimeFactor(y) ==
    IF RLe(y, R(1, 4)) THEN R(5, 100)
    ELSE IF RLe(y, R(1, 2)) THEN R(1, 10)
    ELSE IF RLe(y, One) THEN R(2, 10)
    ELSE IF RLe(y, R(2, 1))
         THEN RMax(R(2, 10), RSub(One, RDiv(RMul(R(1, 2), RSub(R(2, 1), y)), R(2, 1))))
    ELSE One

\* C23: for a non-expired drug the time factor is 0.05 up to 0.25 years, 0.1 up to
\* 0.5, 0.2 up to 1.0, max(0.2, 1 - 0.5 (2 - y) / 2) up to 2.0 and 1.0 beyond; it lies
\* in [0.05, 1.0] and does not decrease when years_to_expiry grows.
C23_TimeFactor ==
    (rw.called /\ ~rw.expired /\ RLt(Zero, rw.years_to_expiry)) =>
        /\ rw.time_factor = StatedTimeFactor(rw.years_to_expiry)
        /\ RLe(R(5, 100), rw.time_factor) /\ RLe(rw.time_factor, One)
        /\ \A y \in RiskYears :
              RLe(rw.years_to_expiry, y) => RLe(rw.time_factor, time_factor(y))

\* a call on a bucket boundary inside the decay range
C23_Witness ==
    /\ rw.called /\ ~rw.expired
    /\ rw.years_to_expiry = R(3, 2)
    /\ rw.time_factor = R(7, 8)

\* the diversification factor as the claim states it, for n at-risk drugs
StatedDiversification(n) ==
    RMax(R(1, 2), RSub(One, RMul(R(n - 1, 1), R(1, 10))))

\* the number of rows of the analysed cliff data on the ticker of row k
DrugsOnTickerOf(k) ==
    Cardinality({ j \in DOMAIN rr.cliff_analysis :
                    rr.cliff_analysis[j].ticker = rr.cliff_analysis[k].ticker })

HistoricalRevenueOf(k) ==
    IF rr.cliff_analysis[k].ticker \in DOMAIN rr.company_revenues
    THEN rr.company_revenues[rr.cliff_analysis[k].ticker]
    ELSE R(50, 1)

\* time factor x risk factor x stated diversification factor of row k
StatedHistoricalRawWeight(k) ==
    RMul(RMul(RMax(R(1, 10), RMin(One, RDiv(rr.cliff_analysis[k].years_to_expiry, R(5, 1)))),
              RMax(R(1, 10),
                   RSub(One, RMin(R(9, 10),
                                  RDiv(rr.cliff_analysis[k].revenue_billions,
                                       HistoricalRevenueOf(k)))))),
         StatedDiversification(DrugsOnTickerOf(k)))

\* C25: the diversification factor of a company with n at-risk drugs is
\* max(0.5, 1 - (n - 1) x diversification_penalty), so 1.0 for a single drug, in
\* PatentCliffAnalyzer.calculate_portfolio_weights and in
\* calculate_portfolio_weights_historical.
C25_DiversificationFactor ==
    (rr.called /\ rr.result.status = "ok") =>
        /\ rr.method = "calculate_portfolio_weights" =>
              \A k \in DOMAIN rr.cliff_analysis :
                  rr.result.diversification_factor[rr.cliff_analysis[k].ticker]
                      = StatedDiversification(DrugsOnTickerOf(k))
        /\ rr.method = "calculate_portfolio_weights_historical" =>
              \A k \in DOMAIN rr.cliff_analysis :
                  rr.result.raw_weight[k] = StatedHistoricalRawWeight(k)

\* the timeline dates that are not later than the requested date
DatesUpTo(analysis_date) == { d \in DOMAIN patent_timeline : d <= analysis_date }

\* C28: get_patent_data_for_date returns the entry of the greatest timeline date that
\* is <= analysis_date, never an entry of a later date, and None when there is no such
\* date.
C28_NoLookAhead ==
    hd.pc = "returned" =>
        IF DatesUpTo(hd.analysis_date) = {}
        THEN ~hd.result.found
        ELSE /\ hd.result.found
             /\ hd.result.date \in DatesUpTo(hd.analysis_date)
             /\ \A d \in DatesUpTo(hd.analysis_date) : d <= hd.result.date
             /\ hd.result.rows = patent_timeline[hd.result.date]

\* the daily returns of the benchmark on the aligned days of the call
AlignedBenchmarkReturns ==
    pct_change(ReindexDates(pm.benchmark_data, SortedSeq(DOMAIN pm.benchmark_data)))

\* C30: beta of PatentCliffBacktester.calculate_performance_metrics is covariance over
\* benchmark variance under one normalisation: when the portfolio's daily returns equal
\* the benchmark's on every aligned day, and these are not all equal, beta is exactly 1.
C30_BetaOfIdenticalReturns ==
    ( /\ MetricsReturned
      /\ pm.class = "PatentCliffBacktester"
      /\ pm.metrics.n_returns > 1
      /\ pct_change(pm.portfolio_values) = AlignedBenchmarkReturns
      /\ \E j, k \in DOMAIN AlignedBenchmarkReturns :
            AlignedBenchmarkReturns[j] # AlignedBenchmarkReturns[k] )
        => pm.metrics.beta = One

=============================================================================
